---- MODULE Spec2Model ----
(***************************************************************************)
(* The ebook build: the pandoc filter (scripts/pandoc-filter.py) with the  *)
(* metadata validation it runs first (lib/__init__.py), and, further down, *)
(* of ebook.py, the rewriting of the compiled epub (fix_epub, FixEpubSpec),*)
(* the command itself (run_build, RunBuildSpec), the format passes called  *)
(* side by side (PassesSpec), the lookup of the compiler (locate_pandoc,   *)
(* LocateSpec) and the list of sources (find_sources, SourcesSpec).  Each  *)
(* specification moves its own variables and holds the others still.       *)
(*                                                                         *)
(* The filter.                                                             *)
(* One behaviour is one run of the filter: main() hands transform and      *)
(* prepare to run_filter, which calls prepare(doc) once and then walks the *)
(* document depth first, children before their parent, replacing each node *)
(* by what transform returns for it, and finally emits the tree.           *)
(*                                                                         *)
(* A text is a sequence of atoms: a marker or placeholder token is one     *)
(* atom, a plain character is one atom.  A Str leaf as the pandoc reader   *)
(* produces it holds no newline, so "." of the patterns matches every atom.*)
(***************************************************************************)
EXTENDS Integers, Sequences, FiniteSets, TLC

VARIABLES
    format,     \* doc.format: the label pandoc passes to the filter
    meta,       \* doc.get_metadata(): the metadata of the document
    input,      \* the document as the reader produced it (never changed)
    tree,       \* the document being rewritten in place by the walk
    todo,       \* the nodes still to visit, as paths, in walk order
    visited,    \* the number of calls of transform so far
    pc,         \* "prepare", "walk", "done" or "aborted"
    err,        \* the message of the exception that ended the run
    out,        \* the tree written to the compiler, NoTree until then
    \* fix_epub (ebook.py), the rewriting of the compiled epub:
    epub,       \* the files of the epub archive
    temp_dir,   \* the files of the directory the epub is unpacked into
    book_title, \* the title fix_epub is called with
    step,       \* the position of fix_epub in its main logic
    raised,     \* the message of the exception that ended fix_epub
    \* run_build (ebook.py), one run of the command:
    target,         \* the targets of the command line
    target_funcs,   \* the target functions still to call
    stage,          \* the position of run_build
    steps,          \* the steps the running target function still has to do
    ran,            \* the calls and steps done so far, in their order
    rc,             \* the exit status subprocess.call returned last
    exception,      \* the exception that ended run_build
    \* the format passes of one build, called side by side:
    build_dir,      \* the build directory: "absent" or "dir"
    passes,         \* the position of each pass
    built,          \* the artifacts in the build directory
    \* locate_pandoc (ebook.py), called by prepare_build:
    PATH,           \* the directories of PATH: what pandoc --version of
                    \* the pandoc in each prints, NoPandoc where none is
    found,          \* find_in_path's result: the index in PATH, 0 for None
    stdout,         \* the output of pandoc --version
    version,        \* the components of the version, as split
    locating,       \* the position of locate_pandoc
    locate_raised,  \* the exception that ended locate_pandoc
    \* find_sources and markdown_files (ebook.py):
    book_dir,       \* the files of the book directory
    source_paths,   \* the SourcePaths find_sources returned
    files,          \* BuildData.markdown_files: the compiler's file list
    sourcing        \* the position between the two

filter_vars == <<format, meta, input, tree, todo, visited, pc, err, out>>

fix_epub_vars == <<epub, temp_dir, book_title, step, raised>>

run_build_vars == <<target, target_funcs, stage, steps, ran, rc, exception>>

passes_vars == <<build_dir, passes, built>>

locate_vars == <<PATH, found, stdout, version, locating, locate_raised>>

sources_vars == <<book_dir, source_paths, files, sourcing>>

prepare_vars == <<locate_vars, sources_vars>>

vars ==
    <<filter_vars, fix_epub_vars, run_build_vars, passes_vars, prepare_vars>>

---------------------------------------------------------------------------
(* Bounds of the model.                                                    *)

MaxInlines == 3       \* longest Paragraph content of the marker documents
MaxDepth == 2         \* deepest nesting of Containers around a Paragraph
MaxTextLen == 3       \* longest text of a Str leaf holding placeholders
MaxAuthors == 3       \* longest author list
MaxValueInlines == 2  \* longest Paragraph of the documents of ValueDocs

---------------------------------------------------------------------------
(* Constants of the filter.                                                *)

LEFT_JUSTIFY == "{<}"
CENTER_JUSTIFY == "{-}"
RIGHT_JUSTIFY == "{>}"
NEWPAGE_TOKEN == "%newpage%"
SEP_TOKEN == "+++"

AUTHOR_PAT == "%author%"
TITLE_PAT == "%title%"
SUBTITLE_PAT == "%subtitle%"
COPYRIGHT_OWNER_PAT == "%copyright-owner%"
COPYRIGHT_YEAR_PAT == "%copyright-year%"
PUBLISHER_PAT == "%publisher%"
LANGUAGE_PAT == "%language%"

\* The pairs with the keys of the two copyright placeholders exchanged.
SIMPLE_PATTERNS_swapped ==
    << <<TITLE_PAT, <<"title">> >>,
       <<SUBTITLE_PAT, <<"subtitle">> >>,
       <<COPYRIGHT_OWNER_PAT, <<"copyright", "year">> >>,
       <<COPYRIGHT_YEAR_PAT, <<"copyright", "owner">> >>,
       <<PUBLISHER_PAT, <<"publisher">> >>,
       <<LANGUAGE_PAT, <<"language">> >> >>

\* The pairs (pattern, metadata key) in the order the filter tries them.
SIMPLE_PATTERNS ==
    << <<TITLE_PAT, <<"title">> >>,
       <<SUBTITLE_PAT, <<"subtitle">> >>,
       <<COPYRIGHT_OWNER_PAT, <<"copyright", "owner">> >>,
       <<COPYRIGHT_YEAR_PAT, <<"copyright", "year">> >>,
       <<PUBLISHER_PAT, <<"publisher">> >>,
       <<LANGUAGE_PAT, <<"language">> >> >>

\* The glyph sequence of a section separator (three U+2022 bullets).
sep == "\\u2022 \\u2022 \\u2022"

---------------------------------------------------------------------------
(* The nodes of the document (panflute's element classes).  Every node is  *)
(* a record of the same shape; content holds the children of a Para,       *)
(* Header, Div or Doc.                                                     *)

Node(t, l, c, a, x, f) ==
    [type |-> t, level |-> l, content |-> c, attributes |-> a,
     text |-> x, format |-> f]

Str(x) == Node("Str", 0, <<>>, {}, x, "")
LineBreak == Node("LineBreak", 0, <<>>, {}, <<>>, "")
Space == Node("Space", 0, <<>>, {}, <<>>, "")
RawInline(x, f) == Node("RawInline", 0, <<>>, {}, x, f)
Para(c) == Node("Para", 0, c, {}, <<>>, "")
Header(l, c) == Node("Header", l, c, {}, <<>>, "")
Div(c, a) == Node("Div", 0, c, a, <<>>, "")
RawBlock(x, f) == Node("RawBlock", 0, <<>>, {}, x, f)
Doc(c) == Node("Doc", 0, c, {}, <<>>, "")

NoTree == Node("None", 0, <<>>, {}, <<>>, "")

---------------------------------------------------------------------------
(* itertools.dropwhile and takewhile over a content list s; the predicate  *)
(* is given by its values on the elements of s, in order.                  *)

RECURSIVE dropwhile(_, _)
dropwhile(pred, s) ==
    IF s = <<>> THEN <<>>
    ELSE IF Head(pred) THEN dropwhile(Tail(pred), Tail(s)) ELSE s

RECURSIVE takewhile(_, _)
takewhile(pred, s) ==
    IF s = <<>> THEN <<>>
    ELSE IF Head(pred) THEN <<Head(s)>> \o takewhile(Tail(pred), Tail(s))
         ELSE <<>>

IsLineBreak(e) == e.type = "LineBreak"

\* The values of isinstance(e, LineBreak) on a content list.
LineBreaks(s) == [i \in 1..Len(s) |-> IsLineBreak(s[i])]

---------------------------------------------------------------------------
(* The Marker Matcher.                                                     *)

matches_text(elem, text) == elem.type = "Str" /\ elem.text = <<text>>

\* The positions of the token in a text.
Occurrences(text, tok) == {i \in 1..Len(text) : text[i] = tok}

Max(S) == CHOOSE m \in S : \A n \in S : n <= m

NoMatch == [matched |-> FALSE, group1 |-> <<>>, group2 |-> <<>>]

\* re.compile(r'^(.*)%tok%(.*)$').match(elem.text): the first group is
\* greedy, so it runs up to the last occurrence of the token.
matches_pattern(elem, regex) ==
    IF elem.type = "Str" /\ Occurrences(elem.text, regex) # {}
    THEN LET i == Max(Occurrences(elem.text, regex))
         IN  [matched |-> TRUE,
              group1 |-> SubSeq(elem.text, 1, i - 1),
              group2 |-> SubSeq(elem.text, i + 1, Len(elem.text))]
    ELSE NoMatch

\* paragraph_starts_with_child taking a Paragraph of nothing but LineBreaks
\* for a match.
paragraph_starts_with_child_empty(elem, string) ==
    IF elem.type # "Para" THEN FALSE
    ELSE LET stripped == dropwhile(LineBreaks(elem.content), elem.content)
         IN  IF Len(stripped) = 0 THEN TRUE
             ELSE matches_text(stripped[1], string)

paragraph_starts_with_child(elem, string) ==
    IF elem.type # "Para" THEN FALSE
    ELSE LET stripped == dropwhile(LineBreaks(elem.content), elem.content)
         IN  IF Len(stripped) = 0 THEN FALSE
             ELSE matches_text(stripped[1], string)

\* paragraph_contains_child looking at the first child only.
paragraph_contains_child_first(elem, string) ==
    /\ elem.type = "Para"
    /\ Len(elem.content) > 0
    /\ matches_text(elem.content[1], string)

paragraph_contains_child(elem, string) ==
    /\ elem.type = "Para"
    /\ \E i \in 1..Len(elem.content) : matches_text(elem.content[i], string)

\* format.startswith('epub'), over the labels pandoc knows.
is_epub(fmt) == fmt \in {"epub", "epub2", "epub3"}

---------------------------------------------------------------------------
(* Metadata.  A value is absent (kind "none"), a string, a list of strings *)
(* or a map; the metadata itself is a map.  A map is a record whose fields *)
(* besides kind are its keys.                                              *)

None == [kind |-> "none"]
MStr(s) == [kind |-> "str", s |-> s]
MList(items) == [kind |-> "list", items |-> items]
EmptyDict == [kind |-> "map"]

\* Python's truth value of a metadata value.
Truthy(v) ==
    CASE v.kind = "none" -> FALSE
      [] v.kind = "str" -> v.s # <<>>
      [] v.kind = "list" -> v.items # <<>>
      [] v.kind = "map" -> \E k \in DOMAIN v : k # "kind" /\ v[k].kind # "none"

\* dict.get(k) of a map.
DictGet(d, k) == IF k \in DOMAIN d THEN d[k] ELSE None

\* lib.abort(message): the message is written and raised as an Exception.
abort(message) == [ok |-> FALSE, exc |-> "Exception", msg |-> message]

AttributeError == [ok |-> FALSE, exc |-> "AttributeError",
                   msg |-> <<"object has no attribute 'get'">>]

Passed == [ok |-> TRUE, exc |-> "", msg |-> <<>>]

\* The required keys without genre.
RequiredKeys_six ==
    << <<"title">>, <<"author">>, <<"copyright", "owner">>,
       <<"copyright", "year">>, <<"publisher">>, <<"language">> >>

\* The keys validate_metadata requires, in its order, split at the dots.
RequiredKeys ==
    << <<"title">>, <<"author">>, <<"copyright", "owner">>,
       <<"copyright", "year">>, <<"publisher">>, <<"language">>,
       <<"genre">> >>

\* The dotted spelling of a split key.
Dotted(keys) ==
    IF Len(keys) = 1 THEN keys[1] ELSE keys[1] \o "." \o keys[2]

\* The drill of validate_metadata through one composite key, from
\* dictionary d: "v = d.get(k); d = v if v else {}" for each k.  The result
\* is the last v, or "error" when d is not a dictionary (d.get raises).
RECURSIVE Drill(_, _, _)
Drill(d, v, keys) ==
    IF keys = <<>> THEN [error |-> FALSE, v |-> v]
    ELSE IF d.kind # "map" THEN [error |-> TRUE, v |-> None]
    ELSE LET w == DictGet(d, Head(keys))
         IN  Drill(IF Truthy(w) THEN w ELSE EmptyDict, w, Tail(keys))

RECURSIVE ValidateFrom(_, _)
ValidateFrom(dict_like, i) ==
    IF i > Len(RequiredKeys) THEN Passed
    ELSE LET r == Drill(dict_like, None, RequiredKeys[i])
         IN  IF r.error THEN AttributeError
             ELSE IF ~Truthy(r.v)
             THEN abort(<<"Missing required \"", Dotted(RequiredKeys[i]),
                          "\" in metadata.">>)
             ELSE ValidateFrom(dict_like, i + 1)

validate_metadata(dict_like) == ValidateFrom(dict_like, 1)

\* panflute's Doc.get_metadata(key, default): the value at the dotted key,
\* the default when a step of the path is not a key of a map.
RECURSIVE get_metadata(_, _, _)
get_metadata(m, keys, default) ==
    IF keys = <<>> THEN m
    ELSE IF m.kind = "map" /\ DictGet(m, Head(keys)).kind # "none"
    THEN get_metadata(DictGet(m, Head(keys)), Tail(keys), default)
    ELSE default

\* What an f-string makes of a metadata value: a string is itself; of a
\* list or a map, its repr, kept as one atom.
Format(v) ==
    CASE v.kind = "str" -> v.s
      [] v.kind = "none" -> <<"None">>
      [] v.kind = "list" -> <<"repr(list)">>
      [] v.kind = "map" -> <<"repr(dict)">>

\* What "for i, a in enumerate(authors)" iterates: the items of a list,
\* the characters of a string, nothing for the default [].
Enumerate(authors) ==
    CASE authors.kind = "list" -> authors.items
      [] authors.kind = "str" -> [i \in 1..Len(authors.s) |-> <<authors.s[i]>>]
      [] OTHER -> <<>>

---------------------------------------------------------------------------
(* The Transform Engine: what transform returns for one node.              *)

\* justify taking the marker into the Paragraph of leading line skips.
justify_takes_marker(elem, fmt, token, xhtml_class, latex_env, docx_style) ==
    LET drop(child) == IsLineBreak(child) \/ matches_text(child, token)
        leading_line_skips == takewhile(
                [i \in 1..Len(elem.content) |-> drop(elem.content[i])],
                elem.content)
        children == dropwhile([i \in 1..Len(elem.content) |->
                                  drop(elem.content[i])], elem.content)
    IN  IF fmt = "html" \/ is_epub(fmt)
        THEN Div(<<Para(leading_line_skips), Para(children)>>,
                 {<<"class", xhtml_class>>})
        ELSE IF fmt = "latex"
        THEN Para(<<RawInline(<<"\\begin{", latex_env, "}">>, "latex")>>
                  \o children
                  \o <<RawInline(<<"\\end{", latex_env, "}">>, "latex"),
                       RawInline(<<"\\bigskip">>, "latex")>>)
        ELSE IF fmt = "docx"
        THEN Div(<<Para(leading_line_skips), Para(children)>>,
                 {<<"custom-style", docx_style>>})
        ELSE Div(<<Para(leading_line_skips), Para(children)>>, {})

\* justify keeping the leading line skips for latex too.
justify_latex_skips(elem, fmt, token, xhtml_class, latex_env, docx_style) ==
    LET drop(child) == IsLineBreak(child) \/ matches_text(child, token)
        leading_line_skips == takewhile(LineBreaks(elem.content), elem.content)
        children == dropwhile([i \in 1..Len(elem.content) |->
                                  drop(elem.content[i])], elem.content)
    IN  IF fmt = "html" \/ is_epub(fmt)
        THEN Div(<<Para(leading_line_skips), Para(children)>>,
                 {<<"class", xhtml_class>>})
        ELSE IF fmt = "latex"
        THEN Para(<<RawInline(<<"\\begin{", latex_env, "}">>, "latex")>>
                  \o leading_line_skips \o children
                  \o <<RawInline(<<"\\end{", latex_env, "}">>, "latex"),
                       RawInline(<<"\\bigskip">>, "latex")>>)
        ELSE IF fmt = "docx"
        THEN Div(<<Para(leading_line_skips), Para(children)>>,
                 {<<"custom-style", docx_style>>})
        ELSE Div(<<Para(leading_line_skips), Para(children)>>, {})

justify(elem, fmt, token, xhtml_class, latex_env, docx_style) ==
    LET drop(child) == IsLineBreak(child) \/ matches_text(child, token)
        leading_line_skips == takewhile(LineBreaks(elem.content), elem.content)
        children == dropwhile([i \in 1..Len(elem.content) |->
                                  drop(elem.content[i])], elem.content)
    IN  IF fmt = "html" \/ is_epub(fmt)
        THEN Div(<<Para(leading_line_skips), Para(children)>>,
                 {<<"class", xhtml_class>>})
        ELSE IF fmt = "latex"
        THEN Para(<<RawInline(<<"\\begin{", latex_env, "}">>, "latex")>>
                  \o children
                  \o <<RawInline(<<"\\end{", latex_env, "}">>, "latex"),
                       RawInline(<<"\\bigskip">>, "latex")>>)
        ELSE IF fmt = "docx"
        THEN Div(<<Para(leading_line_skips), Para(children)>>,
                 {<<"custom-style", docx_style>>})
        ELSE Div(<<Para(leading_line_skips), Para(children)>>, {})

left_justify_paragraph(elem, fmt) ==
    justify(elem, fmt, LEFT_JUSTIFY, "left", "flushleft", "JustifyLeft")

center_paragraph(elem, fmt) ==
    justify(elem, fmt, CENTER_JUSTIFY, "center", "center", "Centered")

right_justify_paragraph(elem, fmt) ==
    justify(elem, fmt, RIGHT_JUSTIFY, "right", "flushright", "JustifyRight")

\* section_sep centering the Paragraph itself for docx.
section_sep_elem(elem, fmt) ==
    IF fmt = "html" \/ is_epub(fmt)
    THEN RawBlock(<<"<div class=\"sep\">", sep, "</div>">>, "html")
    ELSE IF fmt = "latex"
    THEN Para(<<RawInline(<<"\\bigskip">>, fmt),
                RawInline(<<"\\begin{center}">>, fmt),
                Str(<<sep>>),
                RawInline(<<"\\end{center}">>, fmt),
                RawInline(<<"\\bigskip">>, fmt)>>)
    ELSE IF fmt = "docx"
    THEN center_paragraph(elem, fmt)
    ELSE elem

section_sep(elem, fmt) ==
    IF fmt = "html" \/ is_epub(fmt)
    THEN RawBlock(<<"<div class=\"sep\">", sep, "</div>">>, "html")
    ELSE IF fmt = "latex"
    THEN Para(<<RawInline(<<"\\bigskip">>, fmt),
                RawInline(<<"\\begin{center}">>, fmt),
                Str(<<sep>>),
                RawInline(<<"\\end{center}">>, fmt),
                RawInline(<<"\\bigskip">>, fmt)>>)
    ELSE IF fmt = "docx"
    THEN center_paragraph(Para(<<Str(<<sep>>)>>), fmt)
    ELSE elem

\* The first pair of SIMPLE_PATTERNS, from the i-th on, whose pattern
\* matches decides the replacement; no match leaves the leaf as it is.
RECURSIVE SimpleFrom(_, _, _)
SimpleFrom(elem, m, i) ==
    IF i > Len(SIMPLE_PATTERNS) THEN elem
    ELSE LET mt == matches_pattern(elem, SIMPLE_PATTERNS[i][1])
         IN  IF mt.matched
             THEN LET s == get_metadata(m, SIMPLE_PATTERNS[i][2], MStr(<<>>))
                  IN  Str(mt.group1 \o Format(s) \o mt.group2)
             ELSE SimpleFrom(elem, m, i + 1)

check_for_simple_pattern(elem, m) == SimpleFrom(elem, m, 1)

newpage(fmt) ==
    IF fmt = "latex" THEN <<RawBlock(<<"\\newpage">>, fmt)>>
    ELSE IF is_epub(fmt)
    THEN <<RawBlock(<<"<p class=\"pagebreak\"></p>">>, "html")>>
    ELSE IF fmt = "docx"
    THEN <<Div(<<Para(<<Str(<<>>)>>)>>, {<<"custom-style", "NewPage">>})>>
    ELSE <<>>

\* The author_str loop of transform over the first n authors.
RECURSIVE AuthorStr(_, _)
AuthorStr(authors, n) ==
    IF n = 0 THEN <<>>
    ELSE LET i == n - 1
             a == authors[n]
             s == IF i < Len(authors) - 1 THEN ", " ELSE " and "
         IN  IF i > 0 THEN AuthorStr(authors, n - 1) \o <<s>> \o a
             ELSE a

Returned(e) == [ok |-> TRUE, elem |-> e, msg |-> <<>>]
Raised(r) == [ok |-> FALSE, elem |-> NoTree, msg |-> r.msg]

transform(elem, fmt, m) ==
    IF elem.type = "Header" /\ elem.level = 1
    THEN IF Len(elem.content) = 0
         THEN IF fmt \in {"latex", "docx"}
              THEN Returned(Div(newpage(fmt), {}))
              ELSE Returned(elem)
         ELSE IF ~is_epub(fmt)
              THEN Returned(Div(newpage(fmt) \o <<elem>>, {}))
              ELSE Returned(elem)
    ELSE IF paragraph_contains_child(elem, NEWPAGE_TOKEN)
    THEN Raised(abort(<<"%newpage% is no longer supported.">>))
    ELSE IF paragraph_starts_with_child(elem, LEFT_JUSTIFY)
    THEN Returned(left_justify_paragraph(elem, fmt))
    ELSE IF paragraph_starts_with_child(elem, CENTER_JUSTIFY)
    THEN Returned(center_paragraph(elem, fmt))
    ELSE IF paragraph_starts_with_child(elem, RIGHT_JUSTIFY)
    THEN Returned(right_justify_paragraph(elem, fmt))
    ELSE IF paragraph_contains_child(elem, SEP_TOKEN)
    THEN Returned(section_sep(elem, fmt))
    ELSE IF matches_pattern(elem, AUTHOR_PAT).matched
    THEN LET authors == Enumerate(get_metadata(m, <<"author">>, MList(<<>>)))
             mt == matches_pattern(elem, AUTHOR_PAT)
             author_str == AuthorStr(authors, Len(authors))
         IN  Returned(Str(mt.group1 \o author_str \o mt.group2))
    ELSE IF elem.type = "Str"
    THEN Returned(check_for_simple_pattern(elem, m))
    ELSE Returned(elem)

---------------------------------------------------------------------------
(* The walk of run_filter: panflute's Element.walk visits the children of  *)
(* a node, in order, before the node itself, and puts what the action      *)
(* returns in the node's place.  A node is named by its path from the Doc. *)

RECURSIVE GetAt(_, _)
GetAt(node, path) ==
    IF path = <<>> THEN node
    ELSE GetAt(node.content[Head(path)], Tail(path))

RECURSIVE ReplaceAt(_, _, _)
ReplaceAt(node, path, new) ==
    IF path = <<>> THEN new
    ELSE [node EXCEPT !.content[Head(path)] =
              ReplaceAt(node.content[Head(path)], Tail(path), new)]

RECURSIVE WalkOrder(_, _)
RECURSIVE WalkChildren(_, _, _)
WalkChildren(node, path, i) ==
    IF i > Len(node.content) THEN <<>>
    ELSE WalkOrder(node.content[i], path \o <<i>>)
         \o WalkChildren(node, path, i + 1)

WalkOrder(node, path) == WalkChildren(node, path, 1) \o <<path>>

\* Every node of a tree, the root included.
RECURSIVE Nodes(_)
Nodes(node) ==
    {node} \cup UNION {Nodes(node.content[i]) : i \in 1..Len(node.content)}

---------------------------------------------------------------------------
(* The documents, formats and metadata a run starts from.                  *)

Formats == {"html", "epub", "epub3", "docx", "latex", "json"}

SeqsUpTo(S, n) == UNION {[1..k -> S] : k \in 0..n}

RECURSIVE Wrap(_, _)
Wrap(block, d) == IF d = 0 THEN block ELSE Div(<<Wrap(block, d - 1)>>, {})

Markers == {LEFT_JUSTIFY, CENTER_JUSTIFY, RIGHT_JUSTIFY, SEP_TOKEN,
            NEWPAGE_TOKEN}

Placeholders == {AUTHOR_PAT, TITLE_PAT, SUBTITLE_PAT, COPYRIGHT_OWNER_PAT,
                 COPYRIGHT_YEAR_PAT, PUBLISHER_PAT, LANGUAGE_PAT}

\* The inline children of the marker documents.
MarkerInlines == {LineBreak, Str(<<"a">>)} \cup {Str(<<t>>) : t \in Markers}

\* One Paragraph of markers, inside up to MaxDepth Containers.
MarkerDocs ==
    {Doc(<<Wrap(Para(c), d)>>) :
        c \in SeqsUpTo(MarkerInlines, MaxInlines), d \in 0..MaxDepth}

\* One Heading, inside up to MaxDepth Containers.
HeadingDocs ==
    {Doc(<<Wrap(Header(l, c), d)>>) :
        l \in {1, 2}, c \in {<<>>, <<Str(<<"a">>)>>, <<Str(<<TITLE_PAT>>)>>},
        d \in 0..MaxDepth}

\* Two sibling Paragraphs.
SiblingDocs ==
    {Doc(<<Para(c1), Para(c2)>>) :
        c1 \in SeqsUpTo(MarkerInlines, 1), c2 \in SeqsUpTo(MarkerInlines, 1)}

\* One Str leaf of plain characters and placeholders.
TextDocs ==
    {Doc(<<Para(<<Str(t)>>)>>) :
        t \in SeqsUpTo({"a"} \cup Placeholders, MaxTextLen) \ {<<>>}}

Names == <<"A", "B", "C", "D", "E">>

Copyright(owner, year) == [kind |-> "map", owner |-> owner, year |-> year]

Metadata(title, subtitle, author, copyright, publisher, language, genre) ==
    [kind |-> "map", title |-> title, subtitle |-> subtitle,
     author |-> author, copyright |-> copyright, publisher |-> publisher,
     language |-> language, genre |-> genre]

\* Metadata that passes validation, with n authors.
GoodMeta(author, subtitle) ==
    Metadata(MStr(<<"T">>), subtitle, author,
             Copyright(MStr(<<"O">>), MStr(<<"Y">>)),
             MStr(<<"P">>), MStr(<<"L">>), MStr(<<"G">>))

AuthorList(n) == MList([i \in 1..n |-> <<Names[i]>>])

\* The author values of the placeholder documents: a list of one to
\* MaxAuthors names, or one name given as a plain string.
AuthorValues == {AuthorList(n) : n \in 1..MaxAuthors} \cup {MStr(<<"A", "B">>)}

TextMetas ==
    {GoodMeta(a, st) : a \in AuthorValues, st \in {None, MStr(<<"S">>)}}

\* The values of a plain key: absent, empty or set.
Scalars(v) == {None, MStr(<<>>), MStr(<<v>>)}

\* Metadata with any of the keys absent or empty; copyright is absent,
\* empty, a plain string or a map.
AnyMetas ==
    {Metadata(t, None, a, c, p, l, g) :
        t \in Scalars("T"),
        a \in {None, MList(<<>>), AuthorList(1)},
        c \in Scalars("C") \cup
              {Copyright(o, y) : o \in Scalars("O"), y \in Scalars("Y")},
        p \in Scalars("P"), l \in Scalars("L"), g \in Scalars("G")}

\* Metadata whose title or author is the text of a marker.
ValueMetas ==
    {Metadata(MStr(<<t>>), None, a,
              Copyright(MStr(<<"O">>), MStr(<<"Y">>)),
              MStr(<<"P">>), MStr(<<"L">>), MStr(<<"G">>)) :
        t \in {"T"} \cup Markers,
        a \in {AuthorList(1)} \cup {MList(<<<<k>>>>) : k \in Markers}}

\* One Paragraph of placeholders and plain leaves, alone or in a Container.
ValueDocs ==
    {Doc(<<Wrap(Para(c), d)>>) :
        c \in SeqsUpTo({Str(<<TITLE_PAT>>), Str(<<AUTHOR_PAT>>),
                        Str(<<"a">>), LineBreak}, MaxValueInlines) \ {<<>>},
        d \in 0..1}

\* A run of the filter is no run of fix_epub: no archive, no directory.
NoFiles ==
    [present |-> FALSE, ncx |-> <<>>, nav |-> <<>>, chapters |-> <<>>,
     other |-> <<>>]

NoFixEpub ==
    /\ epub = NoFiles
    /\ temp_dir = NoFiles
    /\ book_title = <<>>
    /\ step = "none"
    /\ raised = <<>>

\* A run of the filter is no run of run_build and no side-by-side build.
NoRunBuild ==
    /\ target = <<>>
    /\ target_funcs = <<>>
    /\ stage = "none"
    /\ steps = <<>>
    /\ ran = <<>>
    /\ rc = 0
    /\ exception = ""

NoPasses ==
    /\ build_dir = "absent"
    /\ passes = <<>>
    /\ built = {}

\* Nor is it a call of locate_pandoc or of find_sources.
NoLocate ==
    /\ PATH = <<>>
    /\ found = 0
    /\ stdout = <<>>
    /\ version = <<>>
    /\ locating = "none"
    /\ locate_raised = ""

NoSources ==
    /\ book_dir = {}
    /\ source_paths = <<>>
    /\ files = <<>>
    /\ sourcing = "none"

NoPrepare == NoLocate /\ NoSources

StartAt(f, m, d) ==
    /\ format = f
    /\ meta = m
    /\ input = d
    /\ tree = d
    /\ todo = WalkOrder(d, <<>>)
    /\ visited = 0
    /\ pc = "prepare"
    /\ err = Passed
    /\ out = NoTree
    /\ NoFixEpub
    /\ NoRunBuild
    /\ NoPasses
    /\ NoPrepare

Init ==
    \/ \E f \in Formats, d \in MarkerDocs \cup HeadingDocs \cup SiblingDocs :
           StartAt(f, GoodMeta(AuthorList(1), None), d)
    \/ \E f \in {"html", "docx"}, m \in TextMetas, d \in TextDocs :
           StartAt(f, m, d)
    \/ \E f \in Formats, m \in AnyMetas :
           StartAt(f, m, Doc(<<Para(<<Str(<<"a">>)>>)>>))
    \/ \E f \in Formats, m \in ValueMetas, d \in ValueDocs :
           StartAt(f, m, d)

---------------------------------------------------------------------------
(* The steps of a run.                                                     *)

\* prepare(doc): validate the metadata; an exception ends the run.
prepare ==
    /\ pc = "prepare"
    /\ LET r == validate_metadata(meta)
       IN  IF r.ok
           THEN /\ pc' = "walk"
                /\ err' = err
           ELSE /\ pc' = "aborted"
                /\ err' = r
    /\ UNCHANGED <<format, meta, input, tree, todo, visited, out>>
    /\ UNCHANGED <<fix_epub_vars, run_build_vars, passes_vars, prepare_vars>>

\* One call transform(elem, doc) of the walk, on the next node in order.
Visit ==
    /\ pc = "walk"
    /\ todo # <<>>
    /\ LET path == Head(todo)
           r == transform(GetAt(tree, path), format, meta)
       IN  IF r.ok
           THEN /\ tree' = ReplaceAt(tree, path, r.elem)
                /\ todo' = Tail(todo)
                /\ pc' = "walk"
                /\ err' = err
           ELSE /\ pc' = "aborted"
                /\ err' = [ok |-> FALSE, exc |-> "Exception", msg |-> r.msg]
                /\ UNCHANGED <<tree, todo>>
    /\ visited' = visited + 1
    /\ UNCHANGED <<format, meta, input, out>>
    /\ UNCHANGED <<fix_epub_vars, run_build_vars, passes_vars, prepare_vars>>

\* The walk is over: run_filter writes the tree out.
Dump ==
    /\ pc = "walk"
    /\ todo = <<>>
    /\ out' = tree
    /\ pc' = "done"
    /\ UNCHANGED <<format, meta, input, tree, todo, visited, err>>
    /\ UNCHANGED <<fix_epub_vars, run_build_vars, passes_vars, prepare_vars>>

Next == prepare \/ Visit \/ Dump

Spec == Init /\ [][Next]_vars

TypeOK ==
    /\ format \in Formats
    /\ pc \in {"prepare", "walk", "done", "aborted"}
    /\ visited \in 0..(MaxInlines + MaxDepth + MaxTextLen + 4)
    /\ (out # NoTree) <=> (pc = "done")

---------------------------------------------------------------------------
(* What the claims speak of.                                               *)

\* The node the walk visits next.
Current == GetAt(tree, Head(todo))

\* A call of transform is about to happen.
Visiting == pc = "walk" /\ todo # <<>>

\* A text holds a marker or placeholder token.
HasToken(text) ==
    \E i \in 1..Len(text) : text[i] \in Markers \cup Placeholders

\* No Heading, no marker token and no placeholder token in the tree.
MarkerFree(doc) ==
    \A n \in Nodes(doc) : n.type # "Header" /\ ~HasToken(n.text)

\* The value at a dotted key is there and not empty.
NonEmptyAt(m, keys) == Truthy(get_metadata(m, keys, None))

\* The six keys the specification requires.
SixKeys ==
    {<<"title">>, <<"author">>, <<"copyright", "owner">>,
     <<"copyright", "year">>, <<"publisher">>, <<"language">>}

SevenKeys == SixKeys \cup {<<"genre">>}

\* The run was ended by prepare, before any node was visited.
Rejected ==
    pc = "aborted" /\ visited = 0 /\ tree = input /\ out = NoTree

\* Some Paragraph of the tree has %newpage% among its children.
HasNewpagePara(doc) ==
    \E n \in Nodes(doc) :
        /\ n.type = "Para"
        /\ \E i \in 1..Len(n.content) :
               n.content[i] = Str(<<NEWPAGE_TOKEN>>)

---------------------------------------------------------------------------
(* C1: for every format, a document without Heading, marker token and      *)
(* placeholder token is returned equal to the input: no visit changes the  *)
(* tree, no visit aborts, and the tree written out is the input.           *)
C1_MarkerFreeIdentity ==
    MarkerFree(input) =>
        /\ tree = input
        /\ (pc = "aborted" => visited = 0)
        /\ (pc = "done" => out = input)

C1_Witness ==
    /\ pc = "done"
    /\ format = "docx"
    /\ input = Doc(<<Div(<<Para(<<Str(<<"a">>), LineBreak, Str(<<"a">>)>>)>>,
                         {})>>)
    /\ out = input

(* C2: when a required key is missing or empty, the run is ended by an     *)
(* error whose message names a missing dotted key, before any node is      *)
(* visited, no node rewritten and no tree written.                         *)
C2_MissingKeyNamed ==
    (pc # "prepare" /\ \E k \in SevenKeys : ~NonEmptyAt(meta, k)) =>
        /\ Rejected
        /\ \E k \in SevenKeys :
              /\ ~NonEmptyAt(meta, k)
              /\ \E i \in 1..Len(err.msg) : err.msg[i] = Dotted(k)

(* C3 as stated: validation passes exactly when the six keys title,        *)
(* author, copyright.owner, copyright.year, publisher and language are     *)
(* not empty.                                                              *)
C3_SixKeysDecide ==
    pc # "prepare" =>
        (Rejected <=> \E k \in SixKeys : ~NonEmptyAt(meta, k))

(* C3 amended: validation passes exactly when the seven keys title,        *)
(* author, copyright.owner, copyright.year, publisher, language and genre  *)
(* are not empty; then the traversal starts, else the run is rejected.     *)
C3_SevenKeysDecide ==
    pc # "prepare" =>
        /\ Rejected <=> \E k \in SevenKeys : ~NonEmptyAt(meta, k)
        /\ ~Rejected => (visited > 0 \/ pc = "walk")

C3_Witness ==
    /\ pc = "walk"
    /\ visited = 1
    /\ \A k \in SevenKeys : NonEmptyAt(meta, k)
    /\ meta \in AnyMetas

(* C4: for every format, a document one of whose Paragraphs, at any depth, *)
(* has %newpage% among its children is never written out: the walk cannot  *)
(* run to its end, and an abort of the walk is the %newpage% error.        *)
C4_NewpageAborts ==
    HasNewpagePara(input) =>
        /\ out = NoTree
        /\ pc # "done"
        /\ ~(pc = "walk" /\ todo = <<>>)
        /\ (pc = "aborted" /\ visited > 0 =>
               err.msg = <<"%newpage% is no longer supported.">>)

C4_Witness ==
    /\ pc = "aborted"
    /\ visited > 0
    /\ format = "latex"
    /\ input = Doc(<<Div(<<Div(<<Para(<<Str(<<CENTER_JUSTIFY>>),
                                         Str(<<SEP_TOKEN>>),
                                         Str(<<NEWPAGE_TOKEN>>)>>)>>,
                               {})>>, {})>>)

---------------------------------------------------------------------------
(* The rewriting of one node: what stands in the node's place after the    *)
(* call of transform that is about to happen.                              *)

Result == GetAt(tree', Head(todo))

\* The number of LineBreaks a content list starts with.
LeadingBreaks(c) ==
    Max({k \in 0..Len(c) : \A i \in 1..k : c[i] = LineBreak})

JustifyMarkers == {LEFT_JUSTIFY, CENTER_JUSTIFY, RIGHT_JUSTIFY}

HasChild(elem, token) ==
    \E i \in 1..Len(elem.content) : elem.content[i] = Str(<<token>>)

\* A Paragraph whose first child that is no LineBreak is the marker, and
\* which holds no %newpage% (such a Paragraph aborts the run, C4).
JustifyCase(elem, token) ==
    /\ elem.type = "Para"
    /\ ~HasChild(elem, NEWPAGE_TOKEN)
    /\ LeadingBreaks(elem.content) < Len(elem.content)
    /\ elem.content[LeadingBreaks(elem.content) + 1] = Str(<<token>>)

\* rest is the content that remains behind the marker at position mpos:
\* a tail of the children after the marker, which leaves out nothing but
\* LineBreaks and marker leaves next to the marker, and starts with none.
Remaining(c, mpos, token, rest) ==
    \E k \in (mpos + 1)..(Len(c) + 1) :
        /\ rest = SubSeq(c, k, Len(c))
        /\ \A i \in (mpos + 1)..(k - 1) :
              c[i] = LineBreak \/ c[i] = Str(<<token>>)
        /\ rest # <<>> => rest[1] # LineBreak

ClassOf(token) ==
    CASE token = LEFT_JUSTIFY -> "left"
      [] token = CENTER_JUSTIFY -> "center"
      [] token = RIGHT_JUSTIFY -> "right"

StyleOf(token) ==
    CASE token = LEFT_JUSTIFY -> "JustifyLeft"
      [] token = CENTER_JUSTIFY -> "Centered"
      [] token = RIGHT_JUSTIFY -> "JustifyRight"

EnvOf(token) ==
    CASE token = LEFT_JUSTIFY -> "flushleft"
      [] token = CENTER_JUSTIFY -> "center"
      [] token = RIGHT_JUSTIFY -> "flushright"

\* The formats of web-markup and pdf-via-web (both compiled with -t html)
\* and of portable-ebook.
WebFormats == {"html", "epub", "epub3"}

\* A Str leaf of the form prefix, token, suffix, the prefix and the suffix
\* holding no placeholder.
LeafWith(elem, token) ==
    /\ elem.type = "Str"
    /\ \E i \in 1..Len(elem.text) :
          /\ elem.text[i] = token
          /\ \A j \in 1..Len(elem.text) :
                j # i => elem.text[j] \notin Placeholders

PrefixOf(text, token) ==
    SubSeq(text, 1, (CHOOSE i \in 1..Len(text) : text[i] = token) - 1)

SuffixOf(text, token) ==
    SubSeq(text, (CHOOSE i \in 1..Len(text) : text[i] = token) + 1,
           Len(text))

\* The author string as claimed: "A", "A and B", "A, B, and C".
RECURSIVE CommaList(_, _)
CommaList(names, n) ==
    IF n = 1 THEN names[1]
    ELSE CommaList(names, n - 1) \o <<", ">> \o names[n]

ClaimedAuthors(names) ==
    LET n == Len(names)
    IN  CASE n = 1 -> names[1]
          [] n = 2 -> names[1] \o <<" and ">> \o names[2]
          [] n >= 3 -> CommaList(names, n - 1) \o <<", and ">> \o names[n]

(* C5: a leaf prefix, %author%, suffix becomes, with a list of n authors,  *)
(* the prefix, then "A" (n = 1), "A and B" (n = 2) or the names separated  *)
(* by ", " with ", and " before the last (n >= 3), then the suffix.        *)
C5_AuthorList ==
    [][(/\ Visiting
        /\ LeafWith(Current, AUTHOR_PAT)
        /\ meta.author.kind = "list")
       => /\ pc' = "walk"
          /\ Result = Str(PrefixOf(Current.text, AUTHOR_PAT)
                          \o ClaimedAuthors(meta.author.items)
                          \o SuffixOf(Current.text, AUTHOR_PAT))]_vars

(* C6: a Paragraph whose first child that is no LineBreak is a             *)
(* justification marker becomes, for html (web-markup and pdf-via-web),    *)
(* epub  and docx, a Container of exactly two Paragraphs, the first        *)
(* holding exactly the leading LineBreaks, the second the remaining        *)
(* content, tagged class = left / center / right (html, epub) or           *)
(* custom-style = JustifyLeft / Centered / JustifyRight (docx).            *)
C6_JustifyContainer ==
    [][\A token \in JustifyMarkers :
         (/\ Visiting
          /\ JustifyCase(Current, token)
          /\ format \in WebFormats \cup {"docx"})
         => LET c == Current.content
                n == LeadingBreaks(c)
            IN  /\ pc' = "walk"
                /\ Result.type = "Div"
                /\ Len(Result.content) = 2
                /\ Result.content[1] = Para(SubSeq(c, 1, n))
                /\ Result.content[2].type = "Para"
                /\ Remaining(c, n + 1, token, Result.content[2].content)
                /\ Result.attributes =
                       IF format = "docx"
                       THEN {<<"custom-style", StyleOf(token)>>}
                       ELSE {<<"class", ClassOf(token)>>}]_vars

C6_Witness ==
    /\ pc = "done"
    /\ format = "docx"
    /\ input = Doc(<<Para(<<LineBreak, Str(<<RIGHT_JUSTIFY>>),
                            Str(<<"a">>)>>)>>)
    /\ out = Doc(<<Div(<<Para(<<LineBreak>>), Para(<<Str(<<"a">>)>>)>>,
                       {<<"custom-style", "JustifyRight">>})>>)

(* C7: for latex the justification Paragraph becomes one Paragraph whose   *)
(* children are a raw \begin{env}, the remaining content, a raw \end{env}  *)
(* and a raw \bigskip, env = flushleft / center / flushright, without the  *)
(* leading LineBreaks of the input.                                        *)
C7_JustifyLatex ==
    [][\A token \in JustifyMarkers :
         (/\ Visiting
          /\ JustifyCase(Current, token)
          /\ format = "latex")
         => LET c == Current.content
                n == LeadingBreaks(c)
                k == Len(Result.content)
            IN  /\ pc' = "walk"
                /\ Result.type = "Para"
                /\ k >= 3
                /\ Result.content[1] =
                       RawInline(<<"\\begin{", EnvOf(token), "}">>, "latex")
                /\ Remaining(c, n + 1, token, SubSeq(Result.content, 2, k - 2))
                /\ Result.content[k - 1] =
                       RawInline(<<"\\end{", EnvOf(token), "}">>, "latex")
                /\ Result.content[k] = RawInline(<<"\\bigskip">>, "latex")]_vars

C7_Witness ==
    /\ pc = "done"
    /\ format = "latex"
    /\ input = Doc(<<Para(<<LineBreak, Str(<<LEFT_JUSTIFY>>),
                            Str(<<"a">>)>>)>>)
    /\ out = Doc(<<Para(<<RawInline(<<"\\begin{", "flushleft", "}">>, "latex"),
                          Str(<<"a">>),
                          RawInline(<<"\\end{", "flushleft", "}">>, "latex"),
                          RawInline(<<"\\bigskip">>, "latex")>>)>>)

\* A Paragraph that holds +++ and is neither a justification Paragraph nor
\* a %newpage% Paragraph.
SeparatorCase(elem) ==
    /\ elem.type = "Para"
    /\ HasChild(elem, SEP_TOKEN)
    /\ ~HasChild(elem, NEWPAGE_TOKEN)
    /\ \A token \in JustifyMarkers : ~JustifyCase(elem, token)

\* The node shows the glyph sequence.
ShowsGlyphs(n) == \E i \in 1..Len(n.text) : n.text[i] = sep

\* The centered glyph sequence of each format.
GlyphBlock(fmt) ==
    CASE fmt \in WebFormats ->
           RawBlock(<<"<div class=\"sep\">", sep, "</div>">>, "html")
      [] fmt = "latex" ->
           Para(<<RawInline(<<"\\bigskip">>, "latex"),
                  RawInline(<<"\\begin{center}">>, "latex"),
                  Str(<<sep>>),
                  RawInline(<<"\\end{center}">>, "latex"),
                  RawInline(<<"\\bigskip">>, "latex")>>)
      [] fmt = "docx" ->
           Div(<<Para(<<>>), Para(<<Str(<<sep>>)>>)>>,
               {<<"custom-style", "Centered">>})

(* C8 as stated: for every format, a Paragraph that holds +++ (and is no   *)
(* justification or %newpage% Paragraph) is replaced by a block that shows *)
(* the glyph sequence, and none of its children remains in the output.     *)
C8_SeparatorEveryFormat ==
    [][(Visiting /\ SeparatorCase(Current))
       => /\ pc' = "walk"
          /\ \E n \in Nodes(Result) : ShowsGlyphs(n)
          /\ \A i \in 1..Len(Current.content) :
                Current.content[i] \notin Nodes(Result)]_vars

(* C8 amended: for html, epub, epub3, latex and docx such a Paragraph is   *)
(* replaced by the block that shows the centered glyph sequence for that   *)
(* format (raw html div of class sep; raw centered latex block; Container  *)
(* of named style Centered), none of its children remaining; for any       *)
(* other format (json) the Paragraph is returned unchanged.                *)
C8_SeparatorKnownFormats ==
    [][(Visiting /\ SeparatorCase(Current))
       => /\ pc' = "walk"
          /\ IF format \in WebFormats \cup {"latex", "docx"}
             THEN /\ Result = GlyphBlock(format)
                  /\ \A i \in 1..Len(Current.content) :
                        Current.content[i] \notin Nodes(Result)
             ELSE Result = Current]_vars

C8_Witness ==
    /\ pc = "done"
    /\ format = "docx"
    /\ input = Doc(<<Para(<<Str(<<"a">>), Str(<<SEP_TOKEN>>), LineBreak>>)>>)
    /\ out = Doc(<<Div(<<Para(<<>>), Para(<<Str(<<sep>>)>>)>>,
                       {<<"custom-style", "Centered">>})>>)

\* The dotted key of each plain placeholder.
KeyOf(token) ==
    CASE token = TITLE_PAT -> <<"title">>
      [] token = SUBTITLE_PAT -> <<"subtitle">>
      [] token = COPYRIGHT_OWNER_PAT -> <<"copyright", "owner">>
      [] token = COPYRIGHT_YEAR_PAT -> <<"copyright", "year">>
      [] token = PUBLISHER_PAT -> <<"publisher">>
      [] token = LANGUAGE_PAT -> <<"language">>

\* The value of the metadata at a dotted key, the empty string when the
\* key is absent.
ValueAt(m, keys) ==
    LET v == IF Len(keys) = 1 THEN m[keys[1]] ELSE m[keys[1]][keys[2]]
    IN  IF v.kind = "str" THEN v.s ELSE <<>>

(* C9: for each of the placeholders title, subtitle, copyright-owner,      *)
(* copyright-year, publisher and language, a leaf prefix, %key%, suffix    *)
(* becomes one leaf of the prefix, the metadata value at the dotted key    *)
(* and the suffix; an absent key gives the empty string and no abort.      *)
C9_SimplePlaceholder ==
    [][\A token \in Placeholders \ {AUTHOR_PAT} :
         (Visiting /\ LeafWith(Current, token))
         => /\ pc' = "walk"
            /\ Result = Str(PrefixOf(Current.text, token)
                            \o ValueAt(meta, KeyOf(token))
                            \o SuffixOf(Current.text, token))]_vars

C9_Witness ==
    /\ pc = "done"
    /\ meta.subtitle = None
    /\ input = Doc(<<Para(<<Str(<<"a", SUBTITLE_PAT, "a">>)>>)>>)
    /\ out = Doc(<<Para(<<Str(<<"a", "a">>)>>)>>)

\* A block that forces a page break.
IsPageBreak(n) ==
    \/ n.type = "RawBlock"
    \/ n.type = "Div" /\ <<"custom-style", "NewPage">> \in n.attributes

(* C10: a level-1 Heading with empty content is replaced, for docx         *)
(* (word-processor) and for html (pdf-via-web), by a forced page break;    *)
(* the Heading is not in the output.                                       *)
C10_EmptyHeadingBreaks ==
    [][(/\ Visiting
        /\ Current.type = "Header"
        /\ Current.level = 1
        /\ Current.content = <<>>
        /\ format \in {"docx", "html"})
       => /\ pc' = "walk"
          /\ \E n \in Nodes(Result) : IsPageBreak(n)
          /\ \A n \in Nodes(Result) : n.type # "Header"]_vars

\* The result of the justification holds a leaf of the marker among the
\* children it keeps.
ResultKeeps(token) ==
    \/ \E j \in 1..Len(Result.content) : Result.content[j] = Str(<<token>>)
    \/ \E p \in 1..Len(Result.content) :
          /\ Result.content[p].type = "Para"
          /\ \E j \in 1..Len(Result.content[p].content) :
                Result.content[p].content[j] = Str(<<token>>)

(* C20: only the first child that is no LineBreak is consumed as the       *)
(* justification marker: when the same marker occurs again later in the    *)
(* Paragraph, as in [M, M, a] or [M, LineBreak, M, a], the remaining       *)
(* content of the result still holds that later marker.                    *)
C20_LaterMarkerKept ==
    [][\A token \in JustifyMarkers :
         (/\ Visiting
          /\ JustifyCase(Current, token)
          /\ format \in WebFormats \cup {"docx", "latex"}
          /\ \E i \in (LeadingBreaks(Current.content) + 2)
                          ..Len(Current.content) :
                Current.content[i] = Str(<<token>>))
         => /\ pc' = "walk"
            /\ ResultKeeps(token)]_vars

---------------------------------------------------------------------------
(* fix_epub (ebook.py): the rewriting of the compiled epub.                *)
(*                                                                         *)
(* The archive holds EPUB/toc.ncx, EPUB/nav.xhtml, the chapter files       *)
(* EPUB/text/ch*.xhtml and other files.  A navigation file is the DOM      *)
(* minidom parses from it: the children of the list root (navMap, ol) are  *)
(* text nodes and entries (navPoint, li); an entry holds its label element *)
(* (the text element of the navLabel, the a element), its target and the   *)
(* entries nested in it.  The target of an entry is unique in the file and *)
(* stands for the identity of the DOM node.  A text is a sequence of       *)
(* atoms, " " and "\n" being the whitespace.                               *)

MaxChildren == 3      \* most children of a list root holding no nesting
MaxKids == 1          \* most entries nested in one entry
MaxLineLen == 3       \* longest line of a chapter file
MaxLines == 2         \* most lines of a chapter file

Whitespace == {" ", "\n"}

\* The label element of an entry: absent, or the data of its Text children.
NoLabel == [present |-> FALSE, chunks |-> <<>>]

Label(chunks) == [present |-> TRUE, chunks |-> chunks]

TextNode(data) ==
    [kind |-> "text", data |-> data, id |-> <<>>, label |-> NoLabel,
     href |-> 0, kids |-> <<>>]

Entry(id, label, href, kids) ==
    [kind |-> "entry", data |-> <<>>, id |-> id, label |-> label,
     href |-> href, kids |-> kids]

\* str.lstrip(), str.rstrip() and str.strip().
RECURSIVE lstrip(_)
lstrip(s) ==
    IF s # <<>> /\ Head(s) \in Whitespace THEN lstrip(Tail(s)) ELSE s

RECURSIVE rstrip(_)
rstrip(s) ==
    IF s # <<>> /\ s[Len(s)] \in Whitespace
    THEN rstrip(SubSeq(s, 1, Len(s) - 1))
    ELSE s

strip(s) == rstrip(lstrip(s))

\* getElementsByTagName on a list root or, with the children of an entry,
\* on the entry: every entry below, in document order.
RECURSIVE getElementsByTagName(_)
getElementsByTagName(children) ==
    IF children = <<>> THEN <<>>
    ELSE LET h == Head(children)
         IN  (IF h.kind = "entry"
              THEN <<h>> \o getElementsByTagName(h.kids)
              ELSE <<>>)
             \o getElementsByTagName(Tail(children))

\* p.getElementsByTagName("text"), li.getElementsByTagName("a"): the label
\* elements of the entry and of the entries nested in it, in document order.
RECURSIVE LabelElements(_)
LabelElements(entries) ==
    IF entries = <<>> THEN <<>>
    ELSE LET h == Head(entries)
         IN  (IF h.label.present THEN <<h.label>> ELSE <<>>)
             \o LabelElements(h.kids)
             \o LabelElements(Tail(entries))

\* get_text_children: the stripped data of the Text children, joined; None
\* (here the empty text, as falsy as None) when there is nothing.
RECURSIVE JoinStripped(_)
JoinStripped(chunks) ==
    IF chunks = <<>> THEN <<>>
    ELSE strip(Head(chunks)) \o JoinStripped(Tail(chunks))

get_text_children(element) ==
    IF element.present THEN JoinStripped(element.chunks) ELSE <<>>

\* Node.removeChild(oldChild): oldChild is taken out of the children when
\* it is one of them, and NotFoundErr is raised when it is not.
IndexOf(children, p) ==
    {i \in 1..Len(children) :
        children[i].kind = "entry" /\ children[i].href = p.href}

RemoveAt(s, i) == SubSeq(s, 1, i - 1) \o SubSeq(s, i + 1, Len(s))

removeChild(children, p) ==
    IF IndexOf(children, p) = {}
    THEN [ok |-> FALSE, children |-> children, msg |-> <<"NotFoundErr">>]
    ELSE [ok |-> TRUE,
          children |-> RemoveAt(children,
                                CHOOSE i \in IndexOf(children, p) : TRUE),
          msg |-> <<>>]

\* strip_text_children: the loop runs over the live childNodes, so the
\* removal of the child at position i moves the next child to position i
\* and the loop goes on at position i + 1.
RECURSIVE StripFrom(_, _)
StripFrom(children, i) ==
    IF i > Len(children) THEN children
    ELSE IF children[i].kind = "text"
         THEN StripFrom(RemoveAt(children, i), i + 1)
         ELSE StripFrom(children, i + 1)

strip_text_children(children) == StripFrom(children, 1)

\* The loops "for i, p in enumerate(...getElementsByTagName(...)):
\* p.setAttribute('id', ...)": the entries are numbered from 1 in document
\* order.
RECURSIVE setAttribute(_, _, _)
setAttribute(children, prefix, n) ==
    IF children = <<>> THEN <<>>
    ELSE LET h == Head(children)
         IN  IF h.kind = "entry"
             THEN <<[h EXCEPT !.id = <<prefix, n + 1>>,
                              !.kids = setAttribute(h.kids, prefix, n + 1)]>>
                  \o setAttribute(Tail(children), prefix,
                                  n + 1 + Len(getElementsByTagName(h.kids)))
             ELSE <<h>> \o setAttribute(Tail(children), prefix, n)

\* dom.writexml / f.write(dom.toxml()): the file as a parser reads it back.
\* Text nodes next to each other are written without anything between them
\* and come back as one text node.
RECURSIVE writexml(_)
writexml(children) ==
    IF Len(children) < 2 THEN children
    ELSE IF children[1].kind = "text" /\ children[2].kind = "text"
         THEN writexml(<<TextNode(children[1].data \o children[2].data)>>
                       \o SubSeq(children, 3, Len(children)))
         ELSE <<children[1]>> \o writexml(Tail(children))

\* What a fix function does: the file it writes, or the exception it
\* raises before it writes anything.
Written(file) == [ok |-> TRUE, file |-> file, msg |-> <<>>]

Exception(file, msg) == [ok |-> FALSE, file |-> file, msg |-> msg]

Kept(children) == [ok |-> TRUE, children |-> children, msg |-> <<>>]

\* A toc.ncx: its navMap elements, each the sequence of its children.
Ncx(navMaps) == [navMap |-> navMaps]

\* A nav element of nav.xhtml: its id ("" when it has none) and its ol
\* elements, each the sequence of its children.
NavElement(id, ols) == [id |-> id, ol |-> ols]

NavXhtml(navs) == [navs |-> navs]

\* The loop of fix_toc_ncx over the navPoints of the navMap.
RECURSIVE drop_navPoints(_, _, _)
drop_navPoints(nav_map, points, title) ==
    IF points = <<>> THEN Kept(nav_map)
    ELSE LET p == Head(points)
             text_nodes == LabelElements(<<p>>)
             text == IF text_nodes # <<>>
                     THEN get_text_children(text_nodes[1])
                     ELSE <<>>
         IN  IF text = <<>> \/ text = title
             THEN LET r == removeChild(nav_map, p)
                  IN  IF r.ok
                      THEN drop_navPoints(r.children, Tail(points), title)
                      ELSE r
             ELSE drop_navPoints(nav_map, Tail(points), title)

fix_toc_ncx_keep(toc, title) == Written(toc)

fix_toc_ncx(toc, title) ==
    IF toc.navMap = <<>>
    THEN Exception(toc, <<"Malformed table of contents: No <navMap>.">>)
    ELSE LET nav_map == toc.navMap[1]
             r == drop_navPoints(nav_map, getElementsByTagName(nav_map),
                                 title)
         IN  IF ~r.ok THEN Exception(toc, r.msg)
             ELSE Written([toc EXCEPT !.navMap[1] =
                     writexml(strip_text_children(
                         setAttribute(r.children, "navPoint-", 0)))])

\* The loop of fix_nav_xhtml over the list items of the ol.
RECURSIVE drop_lis(_, _, _)
drop_lis(ol, items, title) ==
    IF items = <<>> THEN Kept(ol)
    ELSE LET li == Head(items)
             a == LabelElements(<<li>>)
         IN  IF a = <<>>
             THEN [ok |-> FALSE, children |-> ol,
                   msg |-> <<"Malformed table of contents: No <a> in <li>.">>]
             ELSE LET text == get_text_children(a[1])
                  IN  IF text = <<>> \/ text = title
                      THEN LET r == removeChild(ol, li)
                           IN  IF r.ok
                               THEN drop_lis(r.children, Tail(items), title)
                               ELSE r
                      ELSE drop_lis(ol, Tail(items), title)

\* The positions of the nav elements whose id is "toc".
TocNavs_any(toc) == 1..Len(toc.navs)

TocNavs(toc) == {i \in 1..Len(toc.navs) : toc.navs[i].id = "toc"}

Min(S) == CHOOSE x \in S : \A y \in S : x <= y

fix_nav_xhtml_keep(toc, title) == Written(toc)

fix_nav_xhtml(toc, title) ==
    IF TocNavs(toc) = {}
    THEN Exception(toc, <<"Malformed table of contents: No TOC <nav>.">>)
    ELSE LET n == Min(TocNavs(toc))
             nav == toc.navs[n]
         IN  IF nav.ol = <<>>
             THEN Exception(toc,
                      <<"Malformed table of contents: No list in <nav>.">>)
             ELSE LET ol == nav.ol[1]
                      r == drop_lis(ol, getElementsByTagName(ol), title)
                  IN  IF ~r.ok THEN Exception(toc, r.msg)
                      ELSE Written([toc EXCEPT !.navs[n].ol[1] =
                              writexml(strip_text_children(
                                  setAttribute(r.children, "toc-li-", 0)))])

\* A chapter file: its lines without their line ends, and whether the last
\* line has a line end.
File(lines, newline) == [lines |-> lines, newline |-> newline]

\* title_pat = ^(.*<title>).*(</title>).*$ on a line: the groups are
\* greedy, so group 1 ends with the last <title> that has a </title> behind
\* it, and group 2 is the last </title>.
TitleStarts(line) ==
    {i \in 1..Len(line) :
        /\ line[i] = "<title>"
        /\ \E j \in (i + 1)..Len(line) : line[j] = "</title>"}

title_pat(line) ==
    IF TitleStarts(line) = {}
    THEN [found |-> FALSE, group1 |-> <<>>, group2 |-> <<>>]
    ELSE [found |-> TRUE,
          group1 |-> SubSeq(line, 1, Max(TitleStarts(line))),
          group2 |-> <<"</title>">>]

\* fix_chapter_file: every line is read, stripped at its end, rewritten
\* when the pattern is found, and written with a line end.
fix_chapter_file(file, title) ==
    File([k \in 1..Len(file.lines) |->
             LET line == rstrip(file.lines[k])
                 m == title_pat(line)
             IN  IF m.found THEN m.group1 \o title \o m.group2 ELSE line],
         file.lines # <<>>)

\* The chapter files left as they are.
fix_chapter_files_skip(chapters, title) == chapters

\* fix_chapter_files: every file EPUB/text/ch*.xhtml.
fix_chapter_files(chapters, title) ==
    [k \in 1..Len(chapters) |-> fix_chapter_file(chapters[k], title)]

---------------------------------------------------------------------------
(* The archives fix_epub is run on.                                        *)

\* The entries as the compiler numbers them, from 0 in document order; the
\* targets are numbered alike and tell the entries apart.
RECURSIVE Numbered(_, _, _)
Numbered(children, prefix, n) ==
    IF children = <<>> THEN <<>>
    ELSE LET h == Head(children)
         IN  IF h.kind = "entry"
             THEN <<[h EXCEPT !.id = <<prefix, n>>, !.href = n + 1,
                              !.kids = Numbered(h.kids, prefix, n + 1)]>>
                  \o Numbered(Tail(children), prefix,
                              n + 1 + Len(getElementsByTagName(h.kids)))
             ELSE <<h>> \o Numbered(Tail(children), prefix, n)

\* A parser never yields two text nodes next to each other.
Parsed(children) ==
    \A i \in 1..(Len(children) - 1) :
        ~(children[i].kind = "text" /\ children[i + 1].kind = "text")

Labels ==
    {NoLabel, Label(<<>>), Label(<<<<"T">>>>), Label(<<<<"C">>>>),
     Label(<<<<" ">>>>), Label(<<<<"\n", "T", " ">>>>)}

NestLabels == {NoLabel, Label(<<>>), Label(<<<<"T">>>>), Label(<<<<"C">>>>)}

Leaf(label) == Entry(<<>>, label, 0, <<>>)

\* The children of a list root without nesting: text nodes and entries.
FlatLists ==
    {c \in SeqsUpTo({TextNode(<<"\n">>)} \cup {Leaf(l) : l \in Labels},
                    MaxChildren) : Parsed(c)}

\* The children of a list root with entries nested in entries: an entry
\* with its nested entries, alone or before a second entry.
NestedLists ==
    {<<Entry(<<>>, l, 0, kids)>> \o more :
        l \in NestLabels,
        kids \in SeqsUpTo({Leaf(k) : k \in NestLabels}, MaxKids),
        more \in {<<>>} \cup {<<Leaf(k)>> : k \in NestLabels}}

Lists(prefix) ==
    {Numbered(c, prefix, 0) : c \in FlatLists \cup NestedLists}

\* A few lists, for the runs that vary something else.
SomeLists(prefix) ==
    {Numbered(c, prefix, 0) :
        c \in {<<TextNode(<<"\n">>), Leaf(Label(<<<<"T">>>>)),
                 TextNode(<<"\n">>), Leaf(Label(<<<<"C">>>>)),
                 TextNode(<<"\n">>)>>,
               <<Leaf(Label(<<<<"C">>>>))>>}}

NcxFiles ==
    {Ncx(<<>>)} \cup {Ncx(<<l>>) : l \in Lists("navPoint-")}

SomeNcxFiles ==
    {Ncx(<<>>)} \cup {Ncx(<<l>>) : l \in SomeLists("navPoint-")}

\* The landmarks nav of an epub3: a list that is not the table of contents.
Landmarks ==
    NavElement("landmarks",
               <<Numbered(<<Leaf(Label(<<<<"T">>>>)), TextNode(<<"\n">>)>>,
                          "landmark-", 0)>>)

NavFiles ==
    {NavXhtml(<<>>), NavXhtml(<<Landmarks>>),
     NavXhtml(<<NavElement("", <<>>)>>),
     NavXhtml(<<NavElement("toc", <<>>)>>),
     NavXhtml(<<Landmarks, NavElement("toc", <<>>)>>)}
    \cup {NavXhtml(<<NavElement("toc", <<l>>)>>) : l \in Lists("toc-li-")}
    \cup {NavXhtml(<<Landmarks, NavElement("toc", <<l>>), Landmarks>>) :
             l \in SomeLists("toc-li-")}

SomeNavFiles ==
    {NavXhtml(<<Landmarks>>)}
    \cup {NavXhtml(<<Landmarks, NavElement("toc", <<l>>)>>) :
             l \in SomeLists("toc-li-")}

LineAtoms == {"<title>", "</title>", "x", " "}

Lines == SeqsUpTo(LineAtoms, MaxLineLen)

MoreLines == {<<"x">>, <<" ", "x", " ">>}

\* The chapter files: a first line of any form, then lines without title.
ChapterFiles ==
    {File(<<first>> \o more, nl) :
        first \in Lines, more \in SeqsUpTo(MoreLines, MaxLines - 1),
        nl \in BOOLEAN}

TitlePage == File(<<<<"<title>", "x", "</title>">>, <<"x", " ">>>>, FALSE)

Titles == {<<"T">>, <<>>}

Archive(ncx, nav, chapters) ==
    [present |-> TRUE, ncx |-> ncx, nav |-> nav, chapters |-> chapters,
     other |-> <<TitlePage>>]

\* An archive varies in one of its files; the others are absent or plain.
Archives ==
    {Archive(<<ncx>>, nav, <<TitlePage>>) :
        ncx \in NcxFiles,
        nav \in {<<>>, <<NavXhtml(<<NavElement("toc", <<<<>>>>)>>)>>}}
    \cup {Archive(ncx, <<nav>>, <<TitlePage>>) :
        ncx \in {<<>>, <<Ncx(<<<<>>>>)>>}, nav \in NavFiles}
    \cup {Archive(ncx, <<NavXhtml(<<NavElement("toc", <<<<>>>>)>>)>>,
                  <<ch, TitlePage>>) :
        ncx \in {<<>>, <<Ncx(<<<<>>>>)>>}, ch \in ChapterFiles}
    \cup {Archive(ncx, nav, <<TitlePage>>) :
        ncx \in {<<>>} \cup {<<f>> : f \in SomeNcxFiles},
        nav \in {<<>>} \cup {<<f>> : f \in SomeNavFiles}}

\* A run of fix_epub is no run of the filter.
NoFilter ==
    /\ format = ""
    /\ meta = None
    /\ input = NoTree
    /\ tree = NoTree
    /\ todo = <<>>
    /\ visited = 0
    /\ pc = "none"
    /\ err = Passed
    /\ out = NoTree

\* fix_epub(epub, book_title, build_data): the directory to unpack into
\* is removed when it exists.
FixEpubInit ==
    /\ NoFilter
    /\ NoRunBuild
    /\ NoPasses
    /\ NoPrepare
    /\ epub \in Archives
    /\ temp_dir = NoFiles
    /\ book_title \in Titles
    /\ step = "unpack"
    /\ raised = <<>>

---------------------------------------------------------------------------
(* The steps of fix_epub.                                                  *)

unpack_epub ==
    /\ step = "unpack"
    /\ temp_dir' = epub
    /\ step' = "toc.ncx"
    /\ UNCHANGED <<epub, book_title, raised>>
    /\ UNCHANGED <<filter_vars, run_build_vars, passes_vars, prepare_vars>>

\* The first round of the loop over paths_and_funcs: EPUB/toc.ncx.
FixTocNcx ==
    /\ step = "toc.ncx"
    /\ IF temp_dir.ncx = <<>>
       THEN /\ step' = "nav.xhtml"
            /\ UNCHANGED <<temp_dir, raised>>
       ELSE LET r == fix_toc_ncx(temp_dir.ncx[1], book_title)
            IN  IF r.ok
                THEN /\ temp_dir' = [temp_dir EXCEPT !.ncx = <<r.file>>]
                     /\ step' = "nav.xhtml"
                     /\ UNCHANGED raised
                ELSE /\ step' = "failed"
                     /\ raised' = r.msg
                     /\ UNCHANGED temp_dir
    /\ UNCHANGED <<epub, book_title>>
    /\ UNCHANGED <<filter_vars, run_build_vars, passes_vars, prepare_vars>>

\* The second round of the loop: EPUB/nav.xhtml.
FixNavXhtml ==
    /\ step = "nav.xhtml"
    /\ IF temp_dir.nav = <<>>
       THEN /\ step' = "chapters"
            /\ UNCHANGED <<temp_dir, raised>>
       ELSE LET r == fix_nav_xhtml(temp_dir.nav[1], book_title)
            IN  IF r.ok
                THEN /\ temp_dir' = [temp_dir EXCEPT !.nav = <<r.file>>]
                     /\ step' = "chapters"
                     /\ UNCHANGED raised
                ELSE /\ step' = "failed"
                     /\ raised' = r.msg
                     /\ UNCHANGED temp_dir
    /\ UNCHANGED <<epub, book_title>>
    /\ UNCHANGED <<filter_vars, run_build_vars, passes_vars, prepare_vars>>

FixChapterFiles ==
    /\ step = "chapters"
    /\ temp_dir' = [temp_dir EXCEPT
                       !.chapters = fix_chapter_files(@, book_title)]
    /\ step' = "repack"
    /\ UNCHANGED <<epub, book_title, raised>>
    /\ UNCHANGED <<filter_vars, run_build_vars, passes_vars, prepare_vars>>

repack_epub ==
    /\ step = "repack"
    /\ epub' = temp_dir
    /\ step' = "done"
    /\ UNCHANGED <<temp_dir, book_title, raised>>
    /\ UNCHANGED <<filter_vars, run_build_vars, passes_vars, prepare_vars>>

FixEpubNext ==
    unpack_epub \/ FixTocNcx \/ FixNavXhtml \/ FixChapterFiles \/ repack_epub

FixEpubSpec == FixEpubInit /\ [][FixEpubNext]_vars

FixEpubTypeOK ==
    /\ step \in {"unpack", "toc.ncx", "nav.xhtml", "chapters", "repack",
                 "done", "failed"}
    /\ book_title \in Titles
    /\ epub.present
    /\ step = "failed" <=> raised # <<>>

---------------------------------------------------------------------------
(* The navigation documents as the claims speak of them: an ordered list   *)
(* of entries, each with an id, a label and a target.                      *)

\* The entries among the children of a list root, in their order.
RECURSIVE EntriesIn(_)
EntriesIn(children) ==
    IF children = <<>> THEN <<>>
    ELSE (IF Head(children).kind = "entry" THEN <<Head(children)>>
          ELSE <<>>) \o EntriesIn(Tail(children))

\* The document is a list: no entry is nested in another.
IsList(children) ==
    \A i \in 1..Len(children) : children[i].kids = <<>>

\* The label of an entry as a reader sees it: the text of its label
\* element without the whitespace around it.
Visible(data) ==
    LET inked == {i \in 1..Len(data) : data[i] \notin Whitespace}
    IN  IF inked = {} THEN <<>>
        ELSE SubSeq(data, Min(inked), Max(inked))

LabelOf(e) ==
    IF e.label.present /\ e.label.chunks # <<>>
    THEN Visible(e.label.chunks[1])
    ELSE <<>>

\* The entries that are to survive: label not empty and not the title.
RECURSIVE Survivors(_, _)
Survivors(entries, title) ==
    IF entries = <<>> THEN <<>>
    ELSE (IF LabelOf(Head(entries)) # <<>> /\ LabelOf(Head(entries)) # title
          THEN <<Head(entries)>> ELSE <<>>)
         \o Survivors(Tail(entries), title)

\* after holds exactly the entries of before that are to survive, in their
\* order, the i-th with the id prefix-i.
Normalized(before, after, title, prefix) ==
    LET s == Survivors(EntriesIn(before), title)
        a == EntriesIn(after)
    IN  /\ Len(a) = Len(s)
        /\ \A i \in 1..Len(a) : a[i] = [s[i] EXCEPT !.id = <<prefix, i>>]

TocNav(file) ==
    CHOOSE n \in 1..Len(file.navs) :
        /\ file.navs[n].id = "toc"
        /\ \A k \in 1..(n - 1) : file.navs[k].id # "toc"

HasTocList(file) ==
    /\ \E n \in 1..Len(file.navs) : file.navs[n].id = "toc"
    /\ file.navs[TocNav(file)].ol # <<>>

TocList(file) == file.navs[TocNav(file)].ol[1]

NcxRewritten ==
    step = "toc.ncx" /\ step' = "nav.xhtml" /\ temp_dir.ncx # <<>>

NavRewritten ==
    step = "nav.xhtml" /\ step' = "chapters" /\ temp_dir.nav # <<>>

NoTextIn(children) ==
    \A i \in 1..Len(children) : children[i].kind # "text"

(* C13: after the normalization of toc.ncx the navMap, and after that of   *)
(* nav.xhtml the toc list, has no text node among its direct children,     *)
(* whatever the arrangement of text nodes and entries of the input.        *)
C13_NoTextUnderRoot ==
    [][/\ NcxRewritten => NoTextIn(temp_dir'.ncx[1].navMap[1])
       /\ NavRewritten => NoTextIn(TocList(temp_dir'.nav[1]))]_vars

(* C14: a second normalization of a navigation file already normalized,    *)
(* with the same title, writes the same file again: same entries, same     *)
(* ids, same children of the list root.                                    *)
C14_Idempotent ==
    [][/\ NcxRewritten =>
              fix_toc_ncx(temp_dir'.ncx[1], book_title)
                  = Written(temp_dir'.ncx[1])
       /\ NavRewritten =>
              fix_nav_xhtml(temp_dir'.nav[1], book_title)
                  = Written(temp_dir'.nav[1])]_vars

\* What the second normalization does keep: it completes, and the entries
\* and their ids are those of the first.
SecondKeepsEntries ==
    [][/\ NcxRewritten =>
              LET r == fix_toc_ncx(temp_dir'.ncx[1], book_title)
              IN  /\ r.ok
                  /\ EntriesIn(r.file.navMap[1])
                         = EntriesIn(temp_dir'.ncx[1].navMap[1])
       /\ NavRewritten =>
              LET r == fix_nav_xhtml(temp_dir'.nav[1], book_title)
              IN  /\ r.ok
                  /\ EntriesIn(TocList(r.file))
                         = EntriesIn(TocList(temp_dir'.nav[1]))]_vars

Malformed ==
    {<<"Malformed table of contents: No <navMap>.">>,
     <<"Malformed table of contents: No TOC <nav>.">>,
     <<"Malformed table of contents: No list in <nav>.">>}

(* C15: the normalization of a toc.ncx without navMap, of a nav.xhtml      *)
(* without a nav element of id toc (or without any nav element) and of a   *)
(* nav.xhtml whose toc nav holds no list ends in a fatal error, and the    *)
(* file is not written back.                                               *)
C15_MissingContainerFatal ==
    [][((\/ /\ step = "toc.ncx"
            /\ temp_dir.ncx # <<>>
            /\ temp_dir.ncx[1].navMap = <<>>
         \/ /\ step = "nav.xhtml"
            /\ temp_dir.nav # <<>>
            /\ ~HasTocList(temp_dir.nav[1]))
        => /\ step' = "failed"
           /\ raised' \in Malformed
           /\ temp_dir' = temp_dir
           /\ epub' = epub)
       /\ (step = "failed" => step' = "failed")]_vars

C15_Witness ==
    /\ step = "failed"
    /\ raised = <<"Malformed table of contents: No TOC <nav>.">>
    /\ temp_dir.nav = <<NavXhtml(<<Landmarks>>)>>
    /\ temp_dir = epub

\* The positions of the title tags of a line.
Opening(line) == {i \in 1..Len(line) : line[i] = "<title>"}

Closing(line) == {i \in 1..Len(line) : line[i] = "</title>"}

\* The line holds <title>X</title>, once.
HoldsTitle(line) ==
    /\ Cardinality(Opening(line)) = 1
    /\ Cardinality(Closing(line)) = 1
    /\ Min(Opening(line)) < Min(Closing(line))

\* The line with X replaced by the title, the rest as it is.
Retitled(line, title) ==
    SubSeq(line, 1, Min(Opening(line))) \o title
        \o SubSeq(line, Min(Closing(line)), Len(line))

(* C16: the rewriting of the chapter files changes the title only: a line  *)
(* holding <title>X</title> becomes the same line with the book title for  *)
(* X, the text before <title> and behind </title> as it is, and every line *)
(* without both tags, as well as every other file, is as it was.           *)
C16_TitleOnly ==
    [][step = "chapters" =>
          /\ temp_dir'.other = temp_dir.other
          /\ Len(temp_dir'.chapters) = Len(temp_dir.chapters)
          /\ \A k \in 1..Len(temp_dir.chapters) :
                LET old == temp_dir.chapters[k].lines
                    new == temp_dir'.chapters[k].lines
                IN  /\ Len(new) = Len(old)
                    /\ \A n \in 1..Len(old) :
                          /\ HoldsTitle(old[n]) =>
                                 new[n] = Retitled(old[n], book_title)
                          /\ (Opening(old[n]) = {} \/ Closing(old[n]) = {})
                                 => new[n] = old[n]]_vars

---------------------------------------------------------------------------
(* run_build (ebook.py): one run of the command.                           *)
(*                                                                         *)
(* The targets of the command line are looked up first; then the target    *)
(* functions are called one after the other.  A target function is the     *)
(* sequence of its steps: prepare_build, the compiler run through sh, and  *)
(* what follows the compiler.  ran is the trace of the calls and steps.    *)

MaxTargets == 2       \* most targets on the command line

target_map ==
    [t \in {"clean", "all", "build", "pdf", "book.pdf", "epub", "book.epub",
            "docx", "book.docx", "word", "html", "book.html", "combined",
            "ast"} |->
        CASE t = "clean" -> "clean_output"
          [] t \in {"all", "build"} -> "build_all"
          [] t \in {"pdf", "book.pdf"} -> "build_pdf"
          [] t \in {"epub", "book.epub"} -> "build_epub"
          [] t \in {"docx", "book.docx", "word"} -> "build_docx"
          [] t \in {"html", "book.html"} -> "build_html"
          [] t = "combined" -> "dump_combined"
          [] t = "ast" -> "dump_ast"]

\* targets = target if len(target) > 0 else ["all"]
Requested_asis(t) == t

Requested(t) == IF Len(t) > 0 THEN t ELSE <<"all">>

\* The steps of a target function, each with the function it belongs to.
RECURSIVE StepsOf(_)
StepsOf(func) ==
    CASE func = "build_pdf" ->
             <<<<func, "prepare_build">>, <<func, "sh">>>>
      [] func = "build_html" ->
             <<<<func, "prepare_build">>, <<func, "sh">>,
               <<func, "copy_images_to_build">>>>
      [] func = "build_epub" ->
             <<<<func, "prepare_build">>, <<func, "sh">>,
               <<func, "fix_epub">>>>
      [] func = "build_docx" ->
             <<<<func, "prepare_build">>, <<func, "sh">>>>
      [] func = "dump_ast" ->
             <<<<func, "prepare_build">>, <<func, "sh">>, <<func, "write">>>>
      [] func = "dump_combined" ->
             <<<<func, "prepare_build">>, <<func, "write">>>>
      [] func = "clean_output" -> <<<<func, "rmtree">>>>
      [] func = "build_all" ->
             StepsOf("build_pdf") \o StepsOf("build_html")
                 \o StepsOf("build_epub") \o StepsOf("build_docx")

\* The exceptions run_build turns into "--- ABORTED ---".
Caught == {"BookError", "FileNotFoundError"}

\* What a step can raise.
Raises(name) ==
    CASE name = "prepare_build" ->
             {"BookError", "FileNotFoundError", "ClickException"}
      [] name = "fix_epub" -> {"FileNotFoundError", "Exception"}
      [] name = "copy_images_to_build" -> {"FileNotFoundError"}
      [] name = "write" -> {"FileNotFoundError"}
      [] name = "rmtree" -> {}

\* The exit statuses of the compiler: success, failure, killed by signal 9.
ExitStatuses == {0, 1, -9}

TargetNames == DOMAIN target_map \cup {"bogus"}

RunBuildInit ==
    /\ NoFilter
    /\ NoFixEpub
    /\ NoPasses
    /\ NoPrepare
    /\ target \in SeqsUpTo(TargetNames, MaxTargets)
    /\ target_funcs = <<>>
    /\ stage = "validate"
    /\ steps = <<>>
    /\ ran = <<>>
    /\ rc = 0
    /\ exception = ""

\* An exception leaves the target function and the loop over target_funcs.
Raise(e) ==
    /\ stage' = IF e \in Caught THEN "aborted" ELSE "error"
    /\ exception' = e

\* The loop "for t in targets": every target is looked up before any
\* target function is called.
Validate ==
    /\ stage = "validate"
    /\ LET targets == Requested(target)
       IN  IF \E i \in 1..Len(targets) : targets[i] \notin DOMAIN target_map
           THEN /\ Raise("ClickException")
                /\ UNCHANGED target_funcs
           ELSE /\ target_funcs' =
                       [i \in 1..Len(targets) |-> target_map[targets[i]]]
                /\ stage' = "run"
                /\ UNCHANGED exception
    /\ UNCHANGED <<target, steps, ran, rc>>
    /\ UNCHANGED <<filter_vars, fix_epub_vars, passes_vars, prepare_vars>>

\* The loop "for target_func in target_funcs": the next call.
Call ==
    /\ stage = "run"
    /\ steps = <<>>
    /\ target_funcs # <<>>
    /\ steps' = StepsOf(Head(target_funcs))
    /\ ran' = Append(ran, <<Head(target_funcs), "call">>)
    /\ target_funcs' = Tail(target_funcs)
    /\ UNCHANGED <<target, stage, rc, exception>>
    /\ UNCHANGED <<filter_vars, fix_epub_vars, passes_vars, prepare_vars>>

\* sh(command): subprocess.call, and OSError when rc < 0.
sh ==
    /\ stage = "run"
    /\ steps # <<>>
    /\ Head(steps)[2] = "sh"
    /\ ran' = Append(ran, Head(steps))
    /\ \E status \in ExitStatuses :
          /\ rc' = status
          /\ IF status < 0
             THEN /\ Raise("OSError")
                  /\ UNCHANGED steps
             ELSE /\ steps' = Tail(steps)
                  /\ UNCHANGED <<stage, exception>>
    /\ UNCHANGED <<target, target_funcs>>
    /\ UNCHANGED <<filter_vars, fix_epub_vars, passes_vars, prepare_vars>>

\* Any other step of a target function: it is done, or it raises.
Step ==
    /\ stage = "run"
    /\ steps # <<>>
    /\ Head(steps)[2] # "sh"
    /\ ran' = Append(ran, Head(steps))
    /\ \/ /\ steps' = Tail(steps)
          /\ UNCHANGED <<stage, exception>>
       \/ \E e \in Raises(Head(steps)[2]) :
             /\ Raise(e)
             /\ UNCHANGED steps
    /\ UNCHANGED <<target, target_funcs, rc>>
    /\ UNCHANGED <<filter_vars, fix_epub_vars, passes_vars, prepare_vars>>

\* The loop is over.
Return ==
    /\ stage = "run"
    /\ steps = <<>>
    /\ target_funcs = <<>>
    /\ stage' = "done"
    /\ UNCHANGED <<target, target_funcs, steps, ran, rc, exception>>
    /\ UNCHANGED <<filter_vars, fix_epub_vars, passes_vars, prepare_vars>>

RunBuildNext == Validate \/ Call \/ sh \/ Step \/ Return

RunBuildSpec == RunBuildInit /\ [][RunBuildNext]_vars

RunBuildTypeOK ==
    /\ stage \in {"validate", "run", "done", "aborted", "error"}
    /\ rc \in ExitStatuses
    /\ stage \in {"aborted", "error"} <=> exception # ""

(* C18: when the compiler run through sh has exited with a status that is  *)
(* not zero, nothing is done after it: no later step of the target         *)
(* function (fix_epub, copy_images_to_build) and no call of a later target *)
(* function.                                                               *)
C18_FailedCommandStops ==
    [][(stage = "run" /\ rc # 0) => ran' = ran]_vars

\* The calls of target functions among the trace, in their order.
RECURSIVE CallsIn(_)
CallsIn(trace) ==
    IF trace = <<>> THEN <<>>
    ELSE (IF Head(trace)[2] = "call" THEN <<Head(trace)[1]>> ELSE <<>>)
         \o CallsIn(Tail(trace))

KnownTargets ==
    {"clean", "all", "build", "pdf", "book.pdf", "epub", "book.epub", "docx",
     "book.docx", "word", "html", "book.html", "combined", "ast"}

\* The targets asked for: those of the command line, "all" when none.
AskedFor == IF target = <<>> THEN <<"all">> ELSE target

\* The target function a target name stands for.
FuncOf(t) ==
    CASE t = "clean" -> "clean_output"
      [] t \in {"all", "build"} -> "build_all"
      [] t \in {"pdf", "book.pdf"} -> "build_pdf"
      [] t \in {"epub", "book.epub"} -> "build_epub"
      [] t \in {"docx", "book.docx", "word"} -> "build_docx"
      [] t \in {"html", "book.html"} -> "build_html"
      [] t = "combined" -> "dump_combined"
      [] t = "ast" -> "dump_ast"

InOrder ==
    IF \E i \in 1..Len(AskedFor) : AskedFor[i] \notin KnownTargets
    THEN /\ ran = <<>>
         /\ stage \in {"validate", "error"}
    ELSE LET calls == CallsIn(ran)
         IN  /\ Len(calls) <= Len(AskedFor)
             /\ \A i \in 1..Len(calls) : calls[i] = FuncOf(AskedFor[i])
             /\ stage = "done" => Len(calls) = Len(AskedFor)

(* C19: with an unknown target on the command line no target function is   *)
(* ever called, not even clean; otherwise the target functions are called  *)
(* once each in the order of the command line, build_all when no target is *)
(* given, and after a BookError or a FileNotFoundError in one target       *)
(* function no later one is called.                                        *)
C19_ValidateThenInOrder ==
    [][/\ InOrder'
       /\ exception \in {"BookError", "FileNotFoundError"} => ran' = ran
       /\ exception' \in {"BookError", "FileNotFoundError"}
              => stage' = "aborted"]_vars

C19_Witness ==
    /\ stage = "aborted"
    /\ exception = "BookError"
    /\ target = <<"pdf", "book.epub">>
    /\ ran = <<<<"build_pdf", "call">>, <<"build_pdf", "prepare_build">>>>
    /\ target_funcs = <<"build_epub">>

---------------------------------------------------------------------------
(* The format passes of one build, called side by side by the caller on    *)
(* the same book and build directory.  Each pass is a target function; its *)
(* steps on the build directory are those of prepare_build: the test       *)
(* build_dir.exists() of make_build_dir, build_dir.mkdir(), and the        *)
(* compiler run that writes the artifact of the pass.  The temporary       *)
(* directory of a pass is made by TemporaryDirectory and is its own.       *)

Passes == {"build_pdf", "build_html", "build_epub", "build_docx"}

Artifact(p) ==
    CASE p = "build_pdf" -> "book.pdf"
      [] p = "build_html" -> "book.html"
      [] p = "build_epub" -> "book.epub"
      [] p = "build_docx" -> "book.docx"

PassesInit ==
    /\ NoFilter
    /\ NoFixEpub
    /\ NoRunBuild
    /\ NoPrepare
    /\ build_dir \in {"absent", "dir"}
    /\ \E called \in SUBSET Passes :
          /\ called # {}
          /\ passes = [p \in called |-> "make_build_dir"]
    /\ built = {}

\* make_build_dir: if build_dir.exists()
exists ==
    /\ \E p \in DOMAIN passes :
          /\ passes[p] = "make_build_dir"
          /\ passes' = [passes EXCEPT ![p] =
                           IF build_dir = "dir" THEN "pandoc" ELSE "mkdir"]
    /\ UNCHANGED <<build_dir, built>>
    /\ UNCHANGED <<filter_vars, fix_epub_vars, run_build_vars,
                 prepare_vars>>

\* make_build_dir: build_dir.mkdir(), FileExistsError when it exists.
mkdir ==
    /\ \E p \in DOMAIN passes :
          /\ passes[p] = "mkdir"
          /\ IF build_dir = "absent"
             THEN /\ build_dir' = "dir"
                  /\ passes' = [passes EXCEPT ![p] = "pandoc"]
             ELSE /\ passes' = [passes EXCEPT ![p] = "FileExistsError"]
                  /\ UNCHANGED build_dir
    /\ UNCHANGED built
    /\ UNCHANGED <<filter_vars, fix_epub_vars, run_build_vars,
                 prepare_vars>>

\* The rest of the pass: the compiler writes build_dir/book.<ext>.
pandoc ==
    /\ \E p \in DOMAIN passes :
          /\ passes[p] = "pandoc"
          /\ built' = built \cup {Artifact(p)}
          /\ passes' = [passes EXCEPT ![p] = "done"]
    /\ UNCHANGED build_dir
    /\ UNCHANGED <<filter_vars, fix_epub_vars, run_build_vars,
                 prepare_vars>>

PassesNext == exists \/ mkdir \/ pandoc

PassesSpec == PassesInit /\ [][PassesNext]_vars

PassesTypeOK ==
    /\ build_dir \in {"absent", "dir"}
    /\ DOMAIN passes \subseteq Passes
    /\ \A p \in DOMAIN passes :
          passes[p] \in {"make_build_dir", "mkdir", "pandoc", "done",
                         "FileExistsError"}
    /\ built \subseteq {Artifact(p) : p \in Passes}

(* C17: the format passes called side by side on one book and build        *)
(* directory, a build directory that does not exist yet included, do not   *)
(* get in each other's way: in every interleaving no pass fails, and a     *)
(* pass that is done has written its artifact.                             *)
C17_PassesIndependent ==
    \A p \in DOMAIN passes :
        /\ passes[p] # "FileExistsError"
        /\ passes[p] = "done" => Artifact(p) \in built

---------------------------------------------------------------------------
(* Further claims on the filter.                                           *)

\* The Str leaves of a tree that still hold a placeholder.
HoldsPlaceholder(n) ==
    /\ n.type = "Str"
    /\ \E i \in 1..Len(n.text) : n.text[i] \in Placeholders

(* C21: when the transform has run to its end, no Str leaf of the tree     *)
(* written out holds a placeholder that has a substitution rule, also when *)
(* a leaf of the input held two placeholders or one placeholder twice.     *)
C21_NoPlaceholderLeft ==
    pc = "done" => \A n \in Nodes(out) : ~HoldsPlaceholder(n)

\* The Paragraph of the input has no marker among its children.
NoMarkerChild(elem) ==
    \A i \in 1..Len(elem.content) :
        \A t \in Markers : elem.content[i] # Str(<<t>>)

(* C22: metadata values are plain text: a Paragraph that has no marker     *)
(* among its children in the input is rewritten by no block rule, whatever *)
(* the metadata values that took the place of its placeholders, a value    *)
(* equal to a marker (+++, {-}, {<}, {>}, %newpage%) included: the visit of *)
(* the Paragraph leaves it as it is and does not abort.                    *)
C22_ValuesArePlainText ==
    [][(/\ Visiting
        /\ Current.type = "Para"
        /\ NoMarkerChild(GetAt(input, Head(todo))))
       => /\ pc' = "walk"
          /\ Result = Current]_vars

(* C23: a level-1 Heading with content becomes, for html, latex and docx,  *)
(* a Container of two blocks, the forced page break of the format and the  *)
(* Heading as it was; for a format whose label starts with epub a level-1  *)
(* Heading, empty or not, is returned as it is.                            *)
C23_HeadingPageBreak ==
    [][(/\ Visiting
        /\ Current.type = "Header"
        /\ Current.level = 1)
       => /\ pc' = "walk"
          /\ format \in {"epub", "epub3"} => Result = Current
          /\ (format \in {"html", "latex", "docx"} /\ Current.content # <<>>)
                 => /\ Result.type = "Div"
                    /\ Len(Result.content) = 2
                    /\ IsPageBreak(Result.content[1])
                    /\ Result.content[2] = Current]_vars

---------------------------------------------------------------------------
(* Further claims on fix_epub.                                             *)

\* The entries of a list root at every depth.
RECURSIVE EntriesBelow(_)
EntriesBelow(children) ==
    {children[i] : i \in {k \in 1..Len(children) :
                              children[k].kind = "entry"}}
    \cup UNION {EntriesBelow(children[i].kids) : i \in 1..Len(children)}

\* An entry that is to be dropped: label empty or the title.
ToDrop(e, title) == LabelOf(e) = <<>> \/ LabelOf(e) = title

\* Some entry to be dropped is nested in an entry of the list root.
NestedToDrop(children, title) ==
    \E i \in 1..Len(children) :
        \E e \in EntriesBelow(children[i].kids) : ToDrop(e, title)

(* C24: for a toc.ncx or nav.xhtml in which an entry with an empty label   *)
(* or the title as label is nested in another entry, the normalization     *)
(* completes without error and no entry that is to be dropped is left at   *)
(* any depth.                                                              *)
C24_NestedDropped ==
    [][/\ (/\ step = "toc.ncx"
           /\ temp_dir.ncx # <<>>
           /\ temp_dir.ncx[1].navMap # <<>>
           /\ NestedToDrop(temp_dir.ncx[1].navMap[1], book_title))
          => /\ step' = "nav.xhtml"
             /\ \A e \in EntriesBelow(temp_dir'.ncx[1].navMap[1]) :
                   ~ToDrop(e, book_title)
       /\ (/\ step = "nav.xhtml"
           /\ temp_dir.nav # <<>>
           /\ HasTocList(temp_dir.nav[1])
           /\ \A e \in EntriesBelow(TocList(temp_dir.nav[1])) :
                 e.label.present
           /\ NestedToDrop(TocList(temp_dir.nav[1]), book_title))
          => /\ step' = "chapters"
             /\ \A e \in EntriesBelow(TocList(temp_dir'.nav[1])) :
                   ~ToDrop(e, book_title)]_vars

\* The steps of fix_epub's main logic, each with the step that follows it.
StepPairs ==
    {<<"unpack", "toc.ncx">>, <<"toc.ncx", "nav.xhtml">>,
     <<"nav.xhtml", "chapters">>, <<"chapters", "repack">>,
     <<"repack", "done">>,
     <<"toc.ncx", "failed">>, <<"nav.xhtml", "failed">>}

\* toc.ncx of the archive holds a navMap that is a list of entries.
NcxIsList ==
    /\ epub.ncx # <<>>
    /\ epub.ncx[1].navMap # <<>>
    /\ IsList(epub.ncx[1].navMap[1])

(* C25: fix_epub steps in the order unpack, toc.ncx, nav.xhtml, chapter    *)
(* files, repack; the archive changes in the repack step only, which       *)
(* follows the three fix steps; and when a fix step raises, the archive    *)
(* stays as it was, the chapter files and the file of the failing step     *)
(* stay as unpacked, and a toc.ncx fixed before stays normalized in the    *)
(* directory.                                                              *)
C25_OrderAndNoRepackOnFailure ==
    [][/\ <<step, step'>> \in StepPairs
       /\ epub' # epub => step = "repack"
       /\ step # "repack" => epub' = epub
       /\ step' = "failed" =>
             /\ epub' = epub
             /\ temp_dir' = temp_dir
             /\ temp_dir'.chapters = epub.chapters
             /\ step = "toc.ncx" => temp_dir' = epub
             /\ step = "nav.xhtml" =>
                   /\ temp_dir'.nav = epub.nav
                   /\ NcxIsList =>
                         Normalized(epub.ncx[1].navMap[1],
                                    temp_dir'.ncx[1].navMap[1],
                                    book_title, "navPoint-")]_vars

\* nav.xhtml has no toc nav: the pass stops after toc.ncx was fixed, where
\* the title's entry is gone, and the archive is as it was.
C25_Witness ==
    /\ step = "failed"
    /\ book_title = <<"T">>
    /\ epub.nav = <<NavXhtml(<<Landmarks>>)>>
    /\ NcxIsList
    /\ temp_dir.ncx # epub.ncx
    /\ temp_dir.nav = epub.nav
    /\ temp_dir.chapters = epub.chapters

\* The line holds the title between its tags.
TitleIs(line, title) ==
    \E i \in Opening(line) :
        /\ i + Len(title) + 1 <= Len(line)
        /\ SubSeq(line, i + 1, i + Len(title)) = title
        /\ line[i + Len(title) + 1] = "</title>"

\* toc.ncx, respectively nav.xhtml, of the unpacked package is absent or
\* holds its list of entries.
NcxAbsentOrList ==
    temp_dir.ncx # <<>> =>
        /\ temp_dir.ncx[1].navMap # <<>>
        /\ IsList(temp_dir.ncx[1].navMap[1])

NavAbsentOrList ==
    temp_dir.nav # <<>> =>
        /\ HasTocList(temp_dir.nav[1])
        /\ IsList(TocList(temp_dir.nav[1]))
        /\ \A i \in 1..Len(TocList(temp_dir.nav[1])) :
              TocList(temp_dir.nav[1])[i].kind = "entry"
                  => TocList(temp_dir.nav[1])[i].label.present

(* C26: a navigation file that is absent from the unpacked package is      *)
(* skipped without error and without being created; when toc.ncx or        *)
(* nav.xhtml or both are absent, the other file, holding its list of       *)
(* entries, is normalized, every chapter line holding a title element gets *)
(* the book title, and the package is repacked from the directory.         *)
C26_AbsentFileSkipped ==
    [][/\ (step = "toc.ncx" /\ temp_dir.ncx = <<>>)
             => step' = "nav.xhtml" /\ temp_dir' = temp_dir
       /\ (step = "nav.xhtml" /\ temp_dir.nav = <<>>)
             => step' = "chapters" /\ temp_dir' = temp_dir
       /\ (epub.ncx = <<>> \/ epub.nav = <<>>) =>
             /\ (step = "toc.ncx" /\ temp_dir.ncx # <<>> /\ NcxAbsentOrList)
                   => /\ step' = "nav.xhtml"
                      /\ Normalized(temp_dir.ncx[1].navMap[1],
                                    temp_dir'.ncx[1].navMap[1],
                                    book_title, "navPoint-")
             /\ (step = "nav.xhtml" /\ temp_dir.nav # <<>> /\ NavAbsentOrList)
                   => /\ step' = "chapters"
                      /\ Normalized(TocList(temp_dir.nav[1]),
                                    TocList(temp_dir'.nav[1]),
                                    book_title, "toc-li-")
             /\ step = "chapters"
                   => /\ step' = "repack"
                      /\ temp_dir'.ncx = temp_dir.ncx
                      /\ temp_dir'.nav = temp_dir.nav
                      /\ \A k \in 1..Len(temp_dir.chapters) :
                         \A n \in 1..Len(temp_dir.chapters[k].lines) :
                            HoldsTitle(temp_dir.chapters[k].lines[n]) =>
                                TitleIs(temp_dir'.chapters[k].lines[n],
                                        book_title)
             /\ step = "repack" => step' = "done" /\ epub' = temp_dir]_vars

\* No toc.ncx: the repacked archive has none, its nav.xhtml holds the one
\* entry that is not the title, renumbered, and its title page the title.
C26_Witness ==
    /\ step = "done"
    /\ book_title = <<"T">>
    /\ epub.ncx = <<>>
    /\ epub.nav # <<>>
    /\ EntriesIn(TocList(epub.nav[1])) =
           <<Entry(<<"toc-li-", 1>>, Label(<<<<"C">>>>), 2, <<>>)>>
    /\ \E k \in 1..Len(epub.chapters) :
       \E n \in 1..Len(epub.chapters[k].lines) :
           TitleIs(epub.chapters[k].lines[n], book_title)

---------------------------------------------------------------------------
(* locate_pandoc (ebook.py): the compiler is looked up in PATH and its     *)
(* version is checked.                                                     *)
(*                                                                         *)
(* A text is a sequence of characters.  Of the output of pandoc --version  *)
(* the model keeps what follows "pandoc " on the line that names the       *)
(* program; a program that prints no such line prints a text no version    *)
(* starts.                                                                 *)

MaxVersionLen == 5    \* longest version text
MaxPath == 2          \* most directories of PATH

MIN_PANDOC_VERSION == <<3, 1, 0>>

Digits == {"0", "1", "3", "9"}

\* A directory of PATH that does not exist or holds no executable pandoc.
NoPandoc == <<"none">>

\* find_in_path: the first directory holding the command, None (0) when
\* there is none.
find_in_path(path) ==
    LET holding == {i \in 1..Len(path) : path[i] # NoPandoc}
    IN  IF holding = {} THEN 0 ELSE Min(holding)

\* The longest run of characters of class at the start of the text.
RECURSIVE Run(_, _)
Run(text, class) ==
    IF text # <<>> /\ Head(text) \in class
    THEN 1 + Run(Tail(text), class)
    ELSE 0

\* version_pat = ^\s*pandoc\s+(\d+\.\d+[\d.]*).*$ on the line "pandoc "
\* followed by the text: group 1 is digits, a dot, digits, and then every
\* digit and dot that follows.
version_pat(text) ==
    LET a == Run(text, Digits)
        rest == SubSeq(text, a + 2, Len(text))
        b == Run(rest, Digits)
    IN  IF a > 0 /\ Len(text) > a /\ text[a + 1] = "." /\ b > 0
        THEN [found |-> TRUE,
              group1 |-> SubSeq(text, 1, Run(text, Digits \cup {"."}))]
        ELSE [found |-> FALSE, group1 |-> <<>>]

\* str.split("."): the pieces between the dots, empty ones included.
RECURSIVE split(_)
split(text) ==
    LET n == Run(text, Digits)
    IN  IF n = Len(text) THEN <<text>>
        ELSE <<SubSeq(text, 1, n)>> \o split(SubSeq(text, n + 2, Len(text)))

DigitValue(d) ==
    CASE d = "0" -> 0 [] d = "1" -> 1 [] d = "3" -> 3 [] d = "9" -> 9

\* int(v) of a text of digits that is not empty.
RECURSIVE int(_)
int(v) ==
    IF Len(v) = 1 THEN DigitValue(v[1])
    ELSE 10 * int(SubSeq(v, 1, Len(v) - 1)) + DigitValue(v[Len(v)])

\* a < b of two tuples: the first components that differ decide, and a
\* tuple that is the beginning of a longer one is the smaller.
RECURSIVE TupleLess(_, _)
TupleLess(a, b) ==
    IF a = <<>> THEN b # <<>>
    ELSE IF b = <<>> THEN FALSE
    ELSE IF Head(a) # Head(b) THEN Head(a) < Head(b)
    ELSE TupleLess(Tail(a), Tail(b))

\* version[0:3] < MIN_PANDOC_VERSION of the components as integers.
TooOld(parts) ==
    LET v == [i \in 1..Len(parts) |-> int(parts[i])]
    IN  TupleLess(SubSeq(v, 1, IF Len(v) < 3 THEN Len(v) ELSE 3),
                  MIN_PANDOC_VERSION)

VersionTexts == SeqsUpTo(Digits \cup {"."}, MaxVersionLen)

\* 3.1 followed by what is no part of the version, and a line without one.
OtherTexts ==
    {<<"3", ".", "1", "x">>, <<"3", ".", "1", ".", "x">>, <<"x">>}

LocateInit ==
    /\ \/ \E t \in VersionTexts \cup OtherTexts : PATH = <<t>>
       \/ PATH \in SeqsUpTo({NoPandoc, <<"3", ".", "1", ".", "0">>,
                             <<"3", ".", "0", ".", "9">>}, MaxPath)
    /\ found = 0
    /\ stdout = <<>>
    /\ version = <<>>
    /\ locating = "find_in_path"
    /\ locate_raised = ""
    /\ NoFilter
    /\ NoFixEpub
    /\ NoRunBuild
    /\ NoPasses
    /\ NoSources

\* pandoc = find_in_path("pandoc"), FileNotFoundError when it is None.
FindPandoc ==
    /\ locating = "find_in_path"
    /\ found' = find_in_path(PATH)
    /\ IF found' = 0
       THEN /\ locating' = "raised"
            /\ locate_raised' = "FileNotFoundError"
       ELSE /\ locating' = "Popen"
            /\ UNCHANGED locate_raised
    /\ UNCHANGED <<PATH, stdout, version>>
    /\ UNCHANGED <<filter_vars, fix_epub_vars, run_build_vars, passes_vars,
                   sources_vars>>

\* pandoc --version is run and its output read.
Popen ==
    /\ locating = "Popen"
    /\ stdout' = PATH[found]
    /\ locating' = "version_pat"
    /\ UNCHANGED <<PATH, found, version, locate_raised>>
    /\ UNCHANGED <<filter_vars, fix_epub_vars, run_build_vars, passes_vars,
                   sources_vars>>

\* The loop over the lines of the output: the version is split where the
\* pattern is found; without a version the tool gives up.
SearchVersion ==
    /\ locating = "version_pat"
    /\ LET m == version_pat(stdout)
       IN  IF m.found /\ Len(split(m.group1)) >= 2
           THEN /\ version' = split(m.group1)
                /\ locating' = "compare"
                /\ UNCHANGED locate_raised
           ELSE /\ locating' = "raised"
                /\ locate_raised' = "BookToolError: Unable to determine"
                /\ UNCHANGED version
    /\ UNCHANGED <<PATH, found, stdout>>
    /\ UNCHANGED <<filter_vars, fix_epub_vars, run_build_vars, passes_vars,
                   sources_vars>>

\* The components are converted, int("") raising ValueError, and the
\* first three compared with MIN_PANDOC_VERSION.
CompareVersion ==
    /\ locating = "compare"
    /\ IF \E i \in 1..Len(version) : version[i] = <<>>
       THEN /\ locating' = "raised"
            /\ locate_raised' = "ValueError"
       ELSE IF TooOld(version)
       THEN /\ locating' = "raised"
            /\ locate_raised' = "BookToolError: Pandoc version"
       ELSE /\ locating' = "returned"
            /\ UNCHANGED locate_raised
    /\ UNCHANGED <<PATH, found, stdout, version>>
    /\ UNCHANGED <<filter_vars, fix_epub_vars, run_build_vars, passes_vars,
                   sources_vars>>

LocateNext == FindPandoc \/ Popen \/ SearchVersion \/ CompareVersion

LocateSpec == LocateInit /\ [][LocateNext]_vars

LocateTypeOK ==
    /\ found \in 0..MaxPath
    /\ locating \in {"find_in_path", "Popen", "version_pat", "compare",
                     "returned", "raised"}
    /\ locate_raised \in {"", "FileNotFoundError", "ValueError",
                          "BookToolError: Unable to determine",
                          "BookToolError: Pandoc version"}
    /\ locating = "returned" => found > 0 /\ locate_raised = ""

\* The text is a version of two or three numbers with dots between them.
IsVersion(text) ==
    /\ text # <<>>
    /\ \A i \in 1..Len(text) : text[i] \in Digits \cup {"."}
    /\ text[1] # "." /\ text[Len(text)] # "."
    /\ \A i \in 1..(Len(text) - 1) : ~(text[i] = "." /\ text[i + 1] = ".")
    /\ Cardinality({i \in 1..Len(text) : text[i] = "."}) \in {1, 2}

\* The number that starts at i.
NumberAt(text, i) == int(SubSeq(text, i, i + Run(SubSeq(text, i, Len(text)),
                                                  Digits) - 1))

\* major, minor and patch of a version, the patch 0 when it is missing.
Component(text, k) ==
    LET dots == {i \in 1..Len(text) : text[i] = "."}
        starts == {1} \cup {i + 1 : i \in dots}
        before(i) == Cardinality({j \in dots : j < i})
    IN  IF Cardinality(starts) < k THEN 0
        ELSE NumberAt(text, CHOOSE i \in starts : before(i) = k - 1)

AtLeastMinimum(text) ==
    LET major == Component(text, 1)
        minor == Component(text, 2)
        patch == Component(text, 3)
    IN  \/ major > 3
        \/ major = 3 /\ minor > 1
        \/ major = 3 /\ minor = 1 /\ patch >= 0

(* C27: locate_pandoc takes the first pandoc of PATH; when it reports a    *)
(* version of two or three numbers, it is accepted exactly when the        *)
(* version is 3.1.0 or newer, compared number by number with a missing     *)
(* third number as 0, and rejected with a BookToolError otherwise.         *)
C27_VersionAtLeastMinimum ==
    (/\ locating \in {"returned", "raised"}
     /\ found # 0
     /\ IsVersion(PATH[found]))
    => /\ \A i \in 1..(found - 1) : PATH[i] = NoPandoc
       /\ locating = "returned" <=> AtLeastMinimum(PATH[found])
       /\ locating = "raised" =>
              locate_raised = "BookToolError: Pandoc version"

---------------------------------------------------------------------------
(* find_sources and markdown_files (ebook.py): the Markdown sources of the *)
(* book directory and the list of files handed to the compiler.            *)
(*                                                                         *)
(* A path is a name and a number: chapter-n.md and appendix-n.md carry     *)
(* their n, every other file 0.  The numbers have one digit, so the order  *)
(* of the paths is the order of the numbers.  The fields of SourcePaths    *)
(* that name no Markdown file (metadata, cover image, references, style    *)
(* sheets) take no part in the list and are left out.                      *)

MaxChapters == 2      \* most chapter files of the book directory
MaxAppendices == 2    \* most appendix files of the book directory

Path(name, n) == [name |-> name, n |-> n]

NonePath == Path("None", 0)

combined_metadata == Path("combined_metadata", 0)

\* optional_path: the file when the directory holds it, else None.
optional_path(filename, dir) ==
    IF Path(filename, 0) \in dir THEN Path(filename, 0) ELSE NonePath

\* path_glob of chapter-*.md or appendix-*.md: the files of that name, in
\* the order the directory is read, which is any.
path_glob(pattern, dir) ==
    LET hits == {p \in dir : p.name = pattern}
    IN  {s \in [1..Cardinality(hits) -> hits] :
            \A i, j \in 1..Cardinality(hits) : s[i] = s[j] => i = j}

\* sorted(paths): in ascending order.
RECURSIVE sorted(_)
sorted(paths) ==
    IF paths = <<>> THEN <<>>
    ELSE LET k == CHOOSE i \in 1..Len(paths) :
                      \A j \in 1..Len(paths) : paths[i].n <= paths[j].n
         IN  <<paths[k]>> \o sorted(RemoveAt(paths, k))

\* SourcePaths.markdown_files: the list before the None are dropped.
maybe_with_nones(self) ==
    <<self.copyright, self.dedication, self.foreward, self.preface,
      self.prologue>>
    \o self.chapters
    \o <<self.epilogue, self.acknowledgements>>
    \o self.appendices
    \o <<self.glossary, self.author>>

RECURSIVE NotNone(_)
NotNone(paths) ==
    IF paths = <<>> THEN <<>>
    ELSE (IF Head(paths) # NonePath THEN <<Head(paths)>> ELSE <<>>)
         \o NotNone(Tail(paths))

\* The files find_sources looks up with optional_path.
OptionalNames ==
    {"author", "preface", "prologue", "epilogue", "dedication", "foreward",
     "afterward", "glossary", "copyright", "acknowledgements"}

BookDirs ==
    {{Path(name, 0) : name \in some} : some \in SUBSET OptionalNames}
    \cup {{Path("chapter", n) : n \in cs}
              \cup {Path("appendix", n) : n \in as} \cup front :
            cs \in SUBSET (1..MaxChapters),
            as \in SUBSET (1..MaxAppendices),
            front \in {{}, {Path("copyright", 0), Path("afterward", 0),
                            Path("author", 0)}}}

SourcesInit ==
    /\ book_dir \in BookDirs
    /\ source_paths = <<>>
    /\ files = <<>>
    /\ sourcing = "find_sources"
    /\ NoFilter
    /\ NoFixEpub
    /\ NoRunBuild
    /\ NoPasses
    /\ NoLocate

find_sources ==
    /\ sourcing = "find_sources"
    /\ \E appendices \in path_glob("appendix", book_dir),
          chapters \in path_glob("chapter", book_dir) :
          source_paths' =
              [author |-> optional_path("author", book_dir),
               preface |-> optional_path("preface", book_dir),
               prologue |-> optional_path("prologue", book_dir),
               epilogue |-> optional_path("epilogue", book_dir),
               dedication |-> optional_path("dedication", book_dir),
               foreward |-> optional_path("foreward", book_dir),
               afterward |-> optional_path("afterward", book_dir),
               glossary |-> optional_path("glossary", book_dir),
               copyright |-> optional_path("copyright", book_dir),
               appendices |-> appendices,
               acknowledgements |->
                   optional_path("acknowledgements", book_dir),
               chapters |-> sorted(chapters)]
    /\ sourcing' = "markdown_files"
    /\ UNCHANGED <<book_dir, files>>
    /\ UNCHANGED <<filter_vars, fix_epub_vars, run_build_vars, passes_vars,
                   locate_vars>>

\* BuildData.markdown_files.
markdown_files ==
    /\ sourcing = "markdown_files"
    /\ files' = <<combined_metadata>>
                    \o NotNone(maybe_with_nones(source_paths))
    /\ sourcing' = "done"
    /\ UNCHANGED <<book_dir, source_paths>>
    /\ UNCHANGED <<filter_vars, fix_epub_vars, run_build_vars, passes_vars,
                   locate_vars>>

SourcesNext == find_sources \/ markdown_files

SourcesSpec == SourcesInit /\ [][SourcesNext]_vars

SourcesTypeOK ==
    /\ sourcing \in {"find_sources", "markdown_files", "done"}
    /\ \A i \in 1..Len(files) :
          files[i] = combined_metadata \/ files[i] \in book_dir

FrontMatter ==
    {"copyright", "dedication", "foreward", "preface", "prologue"}

BackMatter ==
    {"epilogue", "afterward", "acknowledgements", "appendix", "glossary",
     "author"}

\* 1 for front matter, 2 for a chapter, 3 for back matter.
PartOf(p) ==
    IF p.name \in FrontMatter THEN 1
    ELSE IF p.name = "chapter" THEN 2
    ELSE 3

(* C28: the list of files handed to the compiler starts with the combined  *)
(* metadata file, and behind it holds every Markdown source of the book    *)
(* directory exactly once (copyright, dedication, foreward, preface,       *)
(* prologue, chapters, epilogue, afterward, acknowledgements, appendices,  *)
(* glossary, author), the chapters in ascending order and front matter     *)
(* before chapters before back matter.                                     *)
C28_EverySourceOnce ==
    sourcing = "done" =>
        /\ files # <<>>
        /\ files[1] = combined_metadata
        /\ \A p \in book_dir :
              Cardinality({i \in 2..Len(files) : files[i] = p}) = 1
        /\ \A i, j \in 2..Len(files) :
              i < j =>
                 /\ PartOf(files[i]) <= PartOf(files[j])
                 /\ (files[i].name = "chapter" /\ files[j].name = "chapter")
                        => files[i].n < files[j].n

====
